---- MODULE Spec2Model ----
(***************************************************************************)
(* Process supervisor of the paper launcher (src/unnamed/part_001).        *)
(*                                                                         *)
(* The specifications of this module share its variables:                  *)
(*   SpecResolver   the resolver loop of the scheduling worker, applied to *)
(*                  bounded configurations and instants;                   *)
(*   SpecEngine     the output-analyzer worker driven by the stdout reader *)
(*                  and by callers that follow the request protocol;       *)
(*   Spec           the event loop running the Backup saga against the     *)
(*                  child process, its IO workers and the analyzer;        *)
(*   SpecAccess     the event loop running Warn, CloseAccess, OpenAccess;  *)
(*   SpecServer     Server.Run after its first Start, with Stop, update,   *)
(*                  reboot and the scheduling worker;                      *)
(*   SpecCalls      Start and Stop called in any order;                    *)
(*   SpecLive       Spec and SpecAccess under fair scheduling;             *)
(*   SpecMain       main and Server.Run from their first statement, and    *)
(*   SpecMainLive   the same under fair scheduling;                        *)
(*   SpecScheduler  the scheduling worker and the time handlers take;      *)
(*   SpecSilent     the event loop with a process that may not answer;     *)
(*   SpecLegacy     the Backup of the earlier revision of the launcher     *)
(*                  (src/papermc-launcher/launcher.go);                    *)
(*   SpecBot        the chat bot's ChatProfile (src/unnamed/part_000)      *)
(*                  consuming the records of a message.                    *)
(* Time is counted in minutes.  Instant 0 is a Monday 00:00 local time.    *)
(***************************************************************************)
EXTENDS Integers, Sequences, FiniteSets, TLC

VARIABLES
    (* scheduling worker *)
    Config,         \* s.Config: WarnBefore, DaysSchedule, Timezone
    now,            \* time.Now() read by the resolver
    nextTime,       \* *time.Time chosen by the resolver, Nil for nil
    nextCommand,    \* InnerCmd chosen by the resolver
    chosenDay,      \* iteration of the day loop that last assigned nextTime
    schedPc,        \* position of the scheduling worker
    (* child process *)
    procAlive,      \* the process started by Cmd.Run is running
    autosave,       \* the process's autosave switch
    stdoutBuf,      \* lines the process has printed, not yet scanned
    chatter,        \* number of unsolicited lines printed so far
    (* lifetime context and the IO workers *)
    ctxDone,        \* cmdCtx is cancelled
    inputsPipe,     \* s.inputsPipe, buffered
    queuedAlive,    \* how many lines of inputsPipe, from its head, were
                    \* enqueued while the process was alive (history)
    outputsPipe,    \* s.outputsPipe, buffered
    outputsClosed,  \* close(pipeOut) has run
    writerPc,       \* input writer: "select" | "done"
    readerPc,       \* stdout reader: "scan" | "send" | "done"
    readerText,     \* scanner.Text() held by the stdout reader in "send"
    (* output analyzer *)
    anaPc,          \* "select" | "accept" | "deliver" | "done"
    reqPtr,         \* the slot: None or the ListenRequest held
    anaText,        \* the line being sent on reqPtr.found in "deliver"
    scanned,        \* lines dequeued since the slot was filled (history)
    (* callers of the correlated wait *)
    call,           \* per caller: position, query, command, line received
    issued,         \* per caller: number of requests issued (history)
    (* event loop *)
    loopPc,         \* position of Server.Run
    step,           \* step of Server.Backup: 1, 2, 3
    err,            \* err of BackupFolder inside Server.Backup
    input,          \* operator line being forwarded to the process
    ops,            \* events taken by the select so far
    sagaLog,        \* events of the current Backup, in order (history)
    (* access control actions *)
    players,        \* s.Config.Players
    todo,           \* commands the running handler has still to enqueue
    cmdLog,         \* events of the current Warn, Open, Close or Stop (history)
    (* process lifecycle *)
    cmdCtx,         \* s.cmdCtx: "nil" | "set" | "unwatched" (set by a Start
                    \* that returned before its Cmd.Run goroutine was made)
    stopPc,         \* position of Server.Stop
    stopErr,        \* what the last Server.Stop returned
    startLog,       \* the last call of Server.Start: state before, result (history)
    errReaderPc,    \* stderr reader: "scan" | "done"
    stale,          \* process and workers of an earlier Start that a later
                    \* Start found alive
    (* chat bot *)
    chatSettings,   \* the ChatProfile of the chat
    records         \* records of the message that are still to be consumed

schedVars == <<Config, now, nextTime, nextCommand, chosenDay, schedPc>>
procVars == <<procAlive, autosave, stdoutBuf, chatter>>
ioVars == <<ctxDone, inputsPipe, queuedAlive, outputsPipe, outputsClosed, writerPc,
            readerPc, readerText>>
anaVars == <<anaPc, reqPtr, anaText, scanned>>
callVars == <<call, issued>>
loopVars == <<loopPc, step, err, input, ops, sagaLog>>
accessVars == <<players, todo, cmdLog>>
lifeVars == <<cmdCtx, stopPc, stopErr, startLog, errReaderPc, stale>>
botVars == <<chatSettings, records>>

vars == <<schedVars, procVars, ioVars, anaVars, callVars, loopVars,
          accessVars, lifeVars, botVars>>

----------------------------------------------------------------------------
(* Bounds *)

MaxWarn == 2        \* longest WarnBefore list
MaxEntries == 2     \* most weekdays with an entry in DaysSchedule
MaxChatter == 1     \* unsolicited lines the process prints
MaxOps == 2         \* events the event loop takes from its select
MaxRequests == 2    \* requests each caller of SpecEngine issues
MaxPlayers == 2     \* longest list of configured players
MaxCalls == 3       \* calls of Start and Stop made by the caller of SpecCalls
MaxRecords == 2     \* records in one message to the chat bot

----------------------------------------------------------------------------
(* Time, durations and the time zone *)

Minute == 1
Hour == 60

\* A *time.Time that is nil; a set one is <<t>>.
Nil == <<>>

\* Time zones: wall clock = instant before the transition instant `at',
\* instant + delta from it on.  The transitions are the usual ones, on the
\* Sunday that is day 6: at 02:00 forward to 03:00, or at 03:00 back to 02:00.
ZoneFixed == [at |-> 0, delta |-> 0]
ZoneForward == [at |-> 6 * 24 * Hour + 2 * Hour, delta |-> Hour]
ZoneBack == [at |-> 6 * 24 * Hour + 3 * Hour, delta |-> 0 - Hour]
Zones == {ZoneFixed, ZoneForward, ZoneBack}

\* t.In(loc): the wall clock reading of instant t.
WallClock(t, loc) == IF t >= loc.at THEN t + loc.delta ELSE t

\* time.Date(now.Year(), now.Month(), now.Day(), 0, 0, 0, 0, loc): the instant
\* of the local midnight of t's local date (no transition falls on a midnight).
DateMidnight(t, loc) ==
    LET wall == (WallClock(t, loc) \div (24 * Hour)) * (24 * Hour)
    IN  IF wall - loc.delta >= loc.at THEN wall - loc.delta ELSE wall

\* time.Weekday: Sunday = 0, Monday = 1, ..., Saturday = 6.
Sunday == 0
Monday == 1
Tuesday == 2

\* Weekday(midnight.Weekday())
Weekday(t, loc) == ((WallClock(t, loc) \div (24 * Hour)) + 1) % 7

\* DayTime.Duration()
Duration(d) == Hour * d.hours + Minute * d.minutes

----------------------------------------------------------------------------
(* The resolver: the day loop of the scheduling worker *)

InnerCmd == {"Backup", "CloseAccess", "OpenAccess", "Warn"}

\* for _ = range 8
ScanWindow == 8

\* midnight.Add(time.Hour * 5): the hour of the Monday backup
BackupHour == 5

\* Faulty variants of Earlier: the first eligible candidate is kept whatever
\* comes later; a later candidate at the same instant overwrites.
EarlierFirstOnly(t, nt) == nt = Nil
EarlierOrTie(t, nt) == nt = Nil \/ t <= nt[1]

\* nextTime == nil || t.Before(*nextTime)
Earlier(t, nt) == nt = Nil \/ t < nt[1]

\* Faulty variant of Eligible: a candidate at the instant `now' is accepted.
EligibleOrNow(nw, t) == nw <= t

\* now.Before(t)
Eligible(nw, t) == nw < t

\* Faulty variant of HasSchedule: the ok flag of the map read is ignored.
HasScheduleAlways(weekday, cfg) == TRUE

\* schedule, ok := s.Config.AccessSchedule.DaysSchedule[weekday]: the ok part
HasSchedule(weekday, cfg) == weekday \in DOMAIN cfg.DaysSchedule

\* ... and the schedule part: a missing key reads as the zero TimeInterval.
ScheduleOf(weekday, cfg) ==
    IF weekday \in DOMAIN cfg.DaysSchedule THEN cfg.DaysSchedule[weekday]
    ELSE [Start |-> [hours |-> 0, minutes |-> 0], End |-> [hours |-> 0, minutes |-> 0]]

\* One guarded assignment of the loop: nextTime = &t; nextCommand = cmd.
Consider(acc, t, cmd, i, nw) ==
    IF Earlier(t, acc.nextTime) /\ Eligible(nw, t)
    THEN [nextTime |-> <<t>>, nextCommand |-> cmd, chosenDay |-> i]
    ELSE acc

\* for _, offset := range s.Config.WarnBefore
RECURSIVE WarnLoop(_, _, _, _, _, _)
WarnLoop(acc, endTime, offsets, k, i, nw) ==
    IF k > Len(offsets) THEN acc
    ELSE WarnLoop(Consider(acc, endTime - offsets[k], "Warn", i, nw),
                  endTime, offsets, k + 1, i, nw)

\* The body of the day loop for the day starting at `midnight'.
ScanDay(acc, midnight, i, cfg, nw) ==
    LET weekday == Weekday(midnight, cfg.Timezone)
        scheduled ==
            IF HasSchedule(weekday, cfg)
            THEN LET schedule == ScheduleOf(weekday, cfg)
                     startTime == midnight + Duration(schedule.Start)
                     endTime == midnight + Duration(schedule.End)
                     opened == Consider(acc, startTime, "OpenAccess", i, nw)
                     warned == WarnLoop(opened, endTime, cfg.WarnBefore, 1, i, nw)
                 IN  Consider(warned, endTime, "CloseAccess", i, nw)
            ELSE acc
    IN  IF weekday = Monday
        THEN Consider(scheduled, midnight + Hour * BackupHour, "Backup", i, nw)
        ELSE scheduled

RECURSIVE ScanDays(_, _, _, _, _)
ScanDays(acc, midnight, i, cfg, nw) ==
    IF i >= ScanWindow THEN acc
    ELSE ScanDays(ScanDay(acc, midnight, i, cfg, nw),
                  midnight + Hour * 24, i + 1, cfg, nw)

\* One pass of the resolver at instant nw: nextCommand := Backup, nextTime := nil,
\* then the day loop from the local midnight of nw.
Resolve(nw, cfg) ==
    ScanDays([nextTime |-> Nil, nextCommand |-> "Backup", chosenDay |-> 0 - 1],
             DateMidnight(nw, cfg.Timezone), 0, cfg, nw)

----------------------------------------------------------------------------
(* Lines of text.  A line, and a query, is the sequence of its words. *)

\* Faulty variant of Contains: the line must equal the query.
ContainsWhole(text, query) == text = query

\* strings.Contains(text, query)
Contains(text, query) ==
    \E i \in 1..(Len(text) - Len(query) + 1) :
        SubSeq(text, i, i + Len(query) - 1) = query

\* The acknowledgement substrings awaited by Server.Backup, and by Warn.
QueryDisabled == <<"Automatic", "saving", "is", "now", "disabled">>
QuerySaved == <<"Saved", "the", "game">>
QueryEnabled == <<"Automatic", "saving", "is", "now", "enabled">>
QueryList == <<"of", "a", "max", "of">>

\* Lines the process prints.
LineDisabled == <<"Automatic", "saving", "is", "now", "disabled">>
LineSaved == <<"Saved", "the", "game">>
LineEnabled == <<"Automatic", "saving", "is", "now", "enabled">>
LineListNone == <<"There", "are", "0", "of", "a", "max", "of", "20", "players", "online">>
LineListSome == <<"There", "are", "2", "of", "a", "max", "of", "20", "players", "online">>
LineChatSaved == <<"<Al>", "Saved", "the", "game">>
LineJoined == <<"Al", "joined", "the", "game">>

\* Unsolicited lines: a chat message quoting an acknowledgement, a log line.
ChatterLines == {LineChatSaved, LineJoined}

\* What the process prints in reply to a command line written to its stdin.
Replies(cmd) ==
    CASE cmd = "save-off" -> {<<LineDisabled>>}
      [] cmd = "save-all" -> {<<LineSaved>>}
      [] cmd = "save-on" -> {<<LineEnabled>>}
      [] cmd = "list" -> {<<LineListNone>>, <<LineListSome>>}
      [] OTHER -> {<<>>}

\* make(chan string, 2)
InputsCap == 2
OutputsCap == 2

None == <<>>
ListenRequest(q, c) == <<[query |-> q, owner |-> c]>>

\* Player{Type, Nickname}
Player(type, nick) == [Type |-> type, Nickname |-> nick]

\* The players of the scenario: a Java player and a Bedrock player.
ScenarioPlayers == <<Player("Java", "Al"), Player("Bedrock", "Bo")>>

Callers == {"loop", "c1", "c2"}
Idle == [pc |-> "idle", query |-> <<>>, cmd |-> "", line |-> <<>>]

\* s.inputsPipe <- line: the line counts as enqueued while the process was
\* alive when the process is alive in that step.  Lines enqueued to a live
\* process precede those enqueued after its exit.
AfterEnqueue == IF procAlive THEN queuedAlive + 1 ELSE queuedAlive

\* input := <-pipeIn: the head of the channel is taken.
AfterWrite == IF queuedAlive > 0 THEN queuedAlive - 1 ELSE 0

\* No message is being handled by the chat bot.
BotIdle ==
    /\ chatSettings = [DayLimit |-> 0, CurrentBalance |-> 0,
                       LastRecordTime |-> [year |-> 0, month |-> 1, day |-> 1]]
    /\ records = <<>>

----------------------------------------------------------------------------
(* The child process *)

\* The process prints a line nobody asked for.
ProcessChatter ==
    /\ procAlive /\ chatter < MaxChatter
    /\ \E l \in ChatterLines : stdoutBuf' = Append(stdoutBuf, l)
    /\ chatter' = chatter + 1
    /\ UNCHANGED <<procAlive, autosave>>
    /\ UNCHANGED <<schedVars, ioVars, anaVars, callVars, loopVars>>
    /\ UNCHANGED <<accessVars, botVars, lifeVars>>

\* The process terminates (a crash, or its own shutdown).
ProcessExit ==
    /\ procAlive
    /\ procAlive' = FALSE
    /\ UNCHANGED <<autosave, stdoutBuf, chatter>>
    /\ UNCHANGED <<schedVars, ioVars, anaVars, callVars, loopVars>>
    /\ UNCHANGED <<accessVars, botVars, lifeVars>>

\* Start, lines 130-136: Cmd.Run() returns, s.contextCancel().
RunReturns ==
    /\ ~procAlive /\ ~ctxDone /\ loopPc # "panic"
    /\ cmdCtx = "set"
    /\ ctxDone' = TRUE
    /\ UNCHANGED <<inputsPipe, queuedAlive, outputsPipe, outputsClosed, writerPc, readerPc, readerText>>
    /\ UNCHANGED <<schedVars, procVars, anaVars, callVars, loopVars>>
    /\ UNCHANGED <<accessVars, botVars, lifeVars>>

----------------------------------------------------------------------------
(* startIOListeners: the input writer and the stdout reader *)

\* Faulty variant of WriterWrite: the writer takes the line enqueued last.
WriterWriteLast ==
    /\ writerPc = "select" /\ inputsPipe # <<>>
    /\ inputsPipe' = SubSeq(inputsPipe, 1, Len(inputsPipe) - 1)
    /\ queuedAlive' = AfterWrite
    /\ LET cmd == inputsPipe[Len(inputsPipe)]
       IN  IF procAlive
           THEN /\ \E reply \in Replies(cmd) : stdoutBuf' = stdoutBuf \o reply
                /\ autosave' = CASE cmd = "save-off" -> FALSE
                                 [] cmd = "save-on" -> TRUE
                                 [] OTHER -> autosave
                /\ procAlive' = (cmd # "stop")
           ELSE UNCHANGED <<stdoutBuf, autosave, procAlive>>
    /\ UNCHANGED <<chatter, ctxDone, outputsPipe, outputsClosed, writerPc,
                   readerPc, readerText>>
    /\ UNCHANGED <<schedVars, anaVars, callVars, loopVars>>
    /\ UNCHANGED <<accessVars, botVars, lifeVars>>

\* case input := <-pipeIn: streamIn.Write(input + "\n").  A live process acts
\* on the line and prints its reply; a write to a dead one is lost.
WriterWrite ==
    /\ writerPc = "select" /\ inputsPipe # <<>>
    /\ inputsPipe' = Tail(inputsPipe) /\ queuedAlive' = AfterWrite
    /\ LET cmd == Head(inputsPipe)
       IN  IF procAlive
           THEN /\ \E reply \in Replies(cmd) : stdoutBuf' = stdoutBuf \o reply
                /\ autosave' = CASE cmd = "save-off" -> FALSE
                                 [] cmd = "save-on" -> TRUE
                                 [] OTHER -> autosave
                /\ procAlive' = (cmd # "stop")
           ELSE UNCHANGED <<stdoutBuf, autosave, procAlive>>
    /\ UNCHANGED <<chatter, ctxDone, outputsPipe, outputsClosed, writerPc,
                   readerPc, readerText>>
    /\ UNCHANGED <<schedVars, anaVars, callVars, loopVars>>
    /\ UNCHANGED <<accessVars, botVars, lifeVars>>

\* case input := <-pipeIn: streamIn.Write(input + "\n"), to a process that
\* acts on the line and prints nothing for it.
WriterWriteUnanswered ==
    /\ writerPc = "select" /\ inputsPipe # <<>>
    /\ procAlive
    /\ inputsPipe' = Tail(inputsPipe) /\ queuedAlive' = AfterWrite
    /\ LET cmd == Head(inputsPipe)
       IN  /\ autosave' = CASE cmd = "save-off" -> FALSE
                            [] cmd = "save-on" -> TRUE
                            [] OTHER -> autosave
           /\ procAlive' = (cmd # "stop")
    /\ UNCHANGED <<stdoutBuf, chatter, ctxDone, outputsPipe, outputsClosed, writerPc,
                   readerPc, readerText>>
    /\ UNCHANGED <<schedVars, anaVars, callVars, loopVars>>
    /\ UNCHANGED <<accessVars, botVars, lifeVars>>

\* case <-ctx.Done(): return
WriterCancel ==
    /\ writerPc = "select" /\ ctxDone
    /\ writerPc' = "done"
    /\ UNCHANGED <<ctxDone, inputsPipe, queuedAlive, outputsPipe, outputsClosed, readerPc, readerText>>
    /\ UNCHANGED <<schedVars, procVars, anaVars, callVars, loopVars>>
    /\ UNCHANGED <<accessVars, botVars, lifeVars>>

\* scanner.Scan() returns true
ReaderScan ==
    /\ readerPc = "scan" /\ stdoutBuf # <<>>
    /\ readerText' = Head(stdoutBuf)
    /\ stdoutBuf' = Tail(stdoutBuf)
    /\ readerPc' = "send"
    /\ UNCHANGED <<procAlive, autosave, chatter>>
    /\ UNCHANGED <<ctxDone, inputsPipe, queuedAlive, outputsPipe, outputsClosed, writerPc>>
    /\ UNCHANGED <<schedVars, anaVars, callVars, loopVars>>
    /\ UNCHANGED <<accessVars, botVars, lifeVars>>

\* pipeOut <- scanner.Text()
ReaderSend ==
    /\ readerPc = "send" /\ Len(outputsPipe) < OutputsCap
    /\ outputsPipe' = Append(outputsPipe, readerText)
    /\ readerText' = <<>>
    /\ readerPc' = "scan"
    /\ UNCHANGED <<ctxDone, inputsPipe, queuedAlive, outputsClosed, writerPc>>
    /\ UNCHANGED <<schedVars, procVars, anaVars, callVars, loopVars>>
    /\ UNCHANGED <<accessVars, botVars, lifeVars>>

\* scanner.Scan() returns false once the process has exited: at the end of
\* the stream, or earlier when Cmd.Run has closed the pipe under the reader.
\* defer close(pipeOut).
ReaderEOF ==
    /\ readerPc = "scan" /\ ~procAlive
    /\ readerPc' = "done"
    /\ outputsClosed' = TRUE
    /\ stdoutBuf' = <<>>
    /\ UNCHANGED <<procAlive, autosave, chatter>>
    /\ UNCHANGED <<ctxDone, inputsPipe, queuedAlive, outputsPipe, writerPc, readerText>>
    /\ UNCHANGED <<schedVars, anaVars, callVars, loopVars>>
    /\ UNCHANGED <<accessVars, botVars, lifeVars>>

----------------------------------------------------------------------------
(* Start, lines 139-173: the output analyzer *)

\* Faulty variant of MayReceive: requestsPipe is also read while a request is held.
MayReceiveAlways(slot) == TRUE

\* The select that reads s.requestsPipe is the one of the branch reqPtr == nil.
MayReceive(slot) == slot = None

\* Faulty variant of Matches: every line is taken for a match.
MatchesAny(text, slot) == TRUE

\* Faulty variant of Matches: the line must be the query.
MatchesWhole(text, slot) == ContainsWhole(text, slot[1].query)

\* strings.Contains(text, reqPtr.query)
Matches(text, slot) == Contains(text, slot[1].query)

\* Faulty variant of SlotAfterFound: the request stays in the slot.
SlotKept(slot) == slot

\* reqPtr = nil after reqPtr.found <- text
SlotAfterFound(slot) == None

\* Appends an event of caller c to the log of the running Backup.
Logged(c, e) == IF c = "loop" /\ loopPc = "backup" THEN Append(sagaLog, e) ELSE sagaLog

\* Appends an event of caller c to the log of the running Warn.
Noted(c, e) == IF c = "loop" /\ loopPc = "warn" THEN Append(cmdLog, e) ELSE cmdLog

\* case req := <-s.requestsPipe: reqPtr = &req, with the caller's
\* s.requestsPipe <- ListenRequest{...}
AnalyzerReceive(c) ==
    /\ anaPc = "select" /\ MayReceive(reqPtr)
    /\ call[c].pc = "submit"
    /\ reqPtr' = ListenRequest(call[c].query, c)
    /\ scanned' = <<>>
    /\ anaPc' = "accept"
    /\ call' = [call EXCEPT ![c].pc = "notify"]
    /\ UNCHANGED <<anaText, issued>>
    /\ UNCHANGED <<schedVars, procVars, ioVars, loopVars>>
    /\ UNCHANGED <<accessVars, botVars, lifeVars>>

\* reqPtr.accepted <- struct{}{}, with the caller's <-notify
AnalyzerAccepted ==
    /\ anaPc = "accept"
    /\ LET c == reqPtr[1].owner
       IN  /\ call[c].pc = "notify"
           /\ call' = [call EXCEPT ![c].pc = "send"]
           /\ sagaLog' = Logged(c, [ev |-> "accepted", what |-> reqPtr[1].query])
           /\ cmdLog' = Noted(c, [ev |-> "accepted", what |-> reqPtr[1].query])
    /\ anaPc' = "select"
    /\ UNCHANGED <<reqPtr, anaText, scanned, issued>>
    /\ UNCHANGED <<loopPc, step, err, input, ops>>
    /\ UNCHANGED <<schedVars, procVars, ioVars>>
    /\ UNCHANGED <<players, botVars, todo, lifeVars>>

\* Faulty variant of AnalyzerIdleLine: the line dequeued with an empty slot
\* is kept by the analyzer.
AnalyzerIdleLineKept ==
    /\ anaPc = "select" /\ reqPtr = None
    /\ outputsPipe # <<>>
    /\ outputsPipe' = Tail(outputsPipe)
    /\ anaText' = Head(outputsPipe)
    /\ UNCHANGED <<anaPc, reqPtr, scanned>>
    /\ UNCHANGED <<ctxDone, inputsPipe, queuedAlive, outputsClosed, writerPc, readerPc, readerText>>
    /\ UNCHANGED <<schedVars, procVars, callVars, loopVars>>
    /\ UNCHANGED <<accessVars, botVars, lifeVars>>

\* reqPtr == nil, case text, ok := <-s.outputsPipe with ok: fmt.Println(text)
AnalyzerIdleLine ==
    /\ anaPc = "select" /\ reqPtr = None
    /\ outputsPipe # <<>>
    /\ outputsPipe' = Tail(outputsPipe)
    /\ UNCHANGED <<ctxDone, inputsPipe, queuedAlive, outputsClosed, writerPc, readerPc, readerText>>
    /\ UNCHANGED <<schedVars, procVars, anaVars, callVars, loopVars>>
    /\ UNCHANGED <<accessVars, botVars, lifeVars>>

\* reqPtr != nil, case text, ok := <-s.outputsPipe with ok: the line is tested
\* against reqPtr.query; a match goes to reqPtr.found.
AnalyzerHoldingLine ==
    /\ anaPc = "select" /\ reqPtr # None
    /\ outputsPipe # <<>>
    /\ outputsPipe' = Tail(outputsPipe)
    /\ scanned' = Append(scanned, Head(outputsPipe))
    /\ IF Matches(Head(outputsPipe), reqPtr)
       THEN anaPc' = "deliver" /\ anaText' = Head(outputsPipe)
       ELSE UNCHANGED <<anaPc, anaText>>
    /\ UNCHANGED reqPtr
    /\ UNCHANGED <<ctxDone, inputsPipe, queuedAlive, outputsClosed, writerPc, readerPc, readerText>>
    /\ UNCHANGED <<schedVars, procVars, callVars, loopVars>>
    /\ UNCHANGED <<accessVars, botVars, lifeVars>>

\* reqPtr.found <- text with the caller's <-find, then reqPtr = nil
AnalyzerDeliver ==
    /\ anaPc = "deliver"
    /\ LET c == reqPtr[1].owner
       IN  /\ call[c].pc = "find"
           /\ call' = [call EXCEPT ![c].pc = "done", ![c].line = anaText]
           /\ sagaLog' = Logged(c, [ev |-> "found", what |-> anaText])
           /\ cmdLog' = Noted(c, [ev |-> "found", what |-> anaText])
    /\ reqPtr' = SlotAfterFound(reqPtr)
    /\ anaText' = <<>>
    /\ scanned' = <<>>
    /\ anaPc' = "select"
    /\ UNCHANGED issued
    /\ UNCHANGED <<loopPc, step, err, input, ops>>
    /\ UNCHANGED <<schedVars, procVars, ioVars>>
    /\ UNCHANGED <<players, botVars, todo, lifeVars>>

\* case text, ok := <-s.outputsPipe with !ok: return (either branch)
AnalyzerClosed ==
    /\ anaPc = "select"
    /\ outputsPipe = <<>> /\ outputsClosed
    /\ anaPc' = "done"
    /\ UNCHANGED <<reqPtr, anaText, scanned>>
    /\ UNCHANGED <<schedVars, procVars, ioVars, callVars, loopVars>>
    /\ UNCHANGED <<accessVars, botVars, lifeVars>>

\* case <-ctx.Done(): return (either branch)
AnalyzerCancel ==
    /\ anaPc = "select" /\ ctxDone
    /\ anaPc' = "done"
    /\ UNCHANGED <<reqPtr, anaText, scanned>>
    /\ UNCHANGED <<schedVars, procVars, ioVars, callVars, loopVars>>
    /\ UNCHANGED <<accessVars, botVars, lifeVars>>

----------------------------------------------------------------------------
(* The correlated wait of a caller: s.requestsPipe <- ListenRequest{...};    *)
(* <-notify; s.inputsPipe <- cmd; <-find.  The first, second and last step   *)
(* are the analyzer's AnalyzerReceive, AnalyzerAccepted and AnalyzerDeliver. *)

Await(q, cmd) == [pc |-> "submit", query |-> q, cmd |-> cmd, line |-> <<>>]

\* s.inputsPipe <- cmd, after <-notify
CallerSend(c) ==
    /\ call[c].pc = "send"
    /\ Len(inputsPipe) < InputsCap
    /\ inputsPipe' = Append(inputsPipe, call[c].cmd) /\ queuedAlive' = AfterEnqueue
    /\ call' = [call EXCEPT ![c].pc = "find"]
    /\ sagaLog' = Logged(c, [ev |-> "sent", what |-> call[c].cmd])
    /\ cmdLog' = Noted(c, [ev |-> "sent", what |-> call[c].cmd])
    /\ UNCHANGED <<ctxDone, outputsPipe, outputsClosed, writerPc, readerPc, readerText>>
    /\ UNCHANGED <<loopPc, step, err, input, ops, issued>>
    /\ UNCHANGED <<schedVars, procVars, anaVars>>
    /\ UNCHANGED <<players, botVars, todo, lifeVars>>

----------------------------------------------------------------------------
(* Server.Backup, run by the event loop *)

\* Faulty variant of BackupCommand: save-on and save-off change places.
BackupCommandSwapped(k) ==
    CASE k = 1 -> "save-on" [] k = 2 -> "save-all" [] k = 3 -> "save-off"

\* The command sent in each of the three exchanges of Server.Backup.
BackupCommand(k) ==
    CASE k = 1 -> "save-off" [] k = 2 -> "save-all" [] k = 3 -> "save-on"

\* The query of each of the three exchanges of Server.Backup.
BackupQuery(k) ==
    CASE k = 1 -> QueryDisabled [] k = 2 -> QuerySaved [] k = 3 -> QueryEnabled

\* What BackupFolder can do: return nil; return the error built from an
\* *exec.ExitError; panic in err.(*exec.ExitError) when bakCmd.Run() failed
\* with any other error (tar could not be started).
ArchiveOutcomes == {"nil", "error", "panic"}

\* Backup, line 245: the first exchange begins.
BackupBegin ==
    /\ loopPc' = "backup"
    /\ step' = 1
    /\ err' = "nil"
    /\ sagaLog' = <<>>
    /\ call' = [call EXCEPT !["loop"] = Await(BackupQuery(1), BackupCommand(1))]

\* Backup, lines 248-249: <-find of the first exchange, the second begins.
BackupSecond ==
    /\ loopPc = "backup" /\ step = 1 /\ call["loop"].pc = "done"
    /\ step' = 2
    /\ call' = [call EXCEPT !["loop"] = Await(BackupQuery(2), BackupCommand(2))]
    /\ UNCHANGED <<loopPc, err, input, ops, sagaLog, issued>>
    /\ UNCHANGED <<schedVars, procVars, ioVars, anaVars>>
    /\ UNCHANGED <<accessVars, botVars, lifeVars>>

\* Backup, lines 252-255: <-find of the second exchange, BackupFolder, the
\* sleep, and the third exchange begins whatever BackupFolder returned.  A
\* panic in BackupFolder ends the program, and its goroutines with it.
BackupArchive ==
    /\ loopPc = "backup" /\ step = 2 /\ call["loop"].pc = "done"
    /\ sagaLog' = Append(sagaLog, [ev |-> "archive", what |-> <<>>])
    /\ \E outcome \in ArchiveOutcomes :
          /\ err' = outcome
          /\ IF outcome = "panic"
             THEN /\ loopPc' = "panic"
                  /\ writerPc' = "dead" /\ readerPc' = "dead" /\ anaPc' = "dead"
                  /\ UNCHANGED <<step, call>>
             ELSE /\ step' = 3
                  /\ call' = [call EXCEPT
                                 !["loop"] = Await(BackupQuery(3), BackupCommand(3))]
                  /\ UNCHANGED <<loopPc, writerPc, readerPc, anaPc>>
    /\ UNCHANGED <<input, ops, issued>>
    /\ UNCHANGED <<ctxDone, inputsPipe, queuedAlive, outputsPipe, outputsClosed, readerText>>
    /\ UNCHANGED <<reqPtr, anaText, scanned>>
    /\ UNCHANGED <<schedVars, procVars>>
    /\ UNCHANGED <<accessVars, botVars, lifeVars>>

\* Backup, lines 258-259: <-find of the third exchange, return err.
BackupReturn ==
    /\ loopPc = "backup" /\ step = 3 /\ call["loop"].pc = "done"
    /\ loopPc' = "returned"
    /\ UNCHANGED <<step, err, input, ops, sagaLog, call, issued>>
    /\ UNCHANGED <<schedVars, procVars, ioVars, anaVars>>
    /\ UNCHANGED <<accessVars, botVars, lifeVars>>

----------------------------------------------------------------------------
(* Server.Run: the event loop *)

\* Operator lines other than the commands of the loop are forwarded.
ForwardedLines == {"list"}

\* case input := <-stdIns, case "backup": s.Backup()
LoopBackupCommand ==
    /\ loopPc = "select" /\ ops < MaxOps
    /\ ops' = ops + 1
    /\ BackupBegin
    /\ UNCHANGED <<input, issued>>
    /\ UNCHANGED <<schedVars, procVars, ioVars, anaVars>>
    /\ UNCHANGED <<accessVars, botVars, lifeVars>>

\* case cmd := <-s.innerCmds, case Backup: s.Backup()
LoopScheduledBackup ==
    /\ loopPc = "select" /\ ops < MaxOps
    /\ ops' = ops + 1
    /\ BackupBegin
    /\ UNCHANGED <<input, issued>>
    /\ UNCHANGED <<schedVars, procVars, ioVars, anaVars>>
    /\ UNCHANGED <<accessVars, botVars, lifeVars>>

\* err := s.Backup() has returned: the error, if any, is printed.
LoopBackupDone ==
    /\ loopPc = "returned"
    /\ loopPc' = "select"
    /\ call' = [call EXCEPT !["loop"] = Idle]
    /\ UNCHANGED <<step, err, input, ops, sagaLog, issued>>
    /\ UNCHANGED <<schedVars, procVars, ioVars, anaVars>>
    /\ UNCHANGED <<accessVars, botVars, lifeVars>>

\* Faulty variant of LoopReadLine: an operator line is taken wherever the
\* event loop is.
LoopReadLineAnytime ==
    /\ ops < MaxOps
    /\ ops' = ops + 1
    /\ \E l \in ForwardedLines : input' = l
    /\ loopPc' = "forward"
    /\ UNCHANGED <<step, err, sagaLog>>
    /\ UNCHANGED <<schedVars, procVars, ioVars, anaVars, callVars>>
    /\ UNCHANGED <<accessVars, botVars, lifeVars>>

\* case input := <-stdIns, default
LoopReadLine ==
    /\ loopPc = "select" /\ ops < MaxOps
    /\ ops' = ops + 1
    /\ \E l \in ForwardedLines : input' = l
    /\ loopPc' = "forward"
    /\ UNCHANGED <<step, err, sagaLog>>
    /\ UNCHANGED <<schedVars, procVars, ioVars, anaVars, callVars>>
    /\ UNCHANGED <<accessVars, botVars, lifeVars>>

\* s.inputsPipe <- input
LoopForward ==
    /\ loopPc = "forward"
    /\ Len(inputsPipe) < InputsCap
    /\ inputsPipe' = Append(inputsPipe, input) /\ queuedAlive' = AfterEnqueue
    /\ input' = ""
    /\ loopPc' = "select"
    /\ UNCHANGED <<step, err, ops, sagaLog>>
    /\ UNCHANGED <<ctxDone, outputsPipe, outputsClosed, writerPc, readerPc, readerText>>
    /\ UNCHANGED <<schedVars, procVars, anaVars, callVars>>
    /\ UNCHANGED <<accessVars, botVars, lifeVars>>

\* case input := <-stdIns, case "stop": break outer
LoopStopCommand ==
    /\ loopPc = "select" /\ ops < MaxOps
    /\ ops' = ops + 1
    /\ loopPc' = "exiting"
    /\ UNCHANGED <<step, err, input, sagaLog>>
    /\ UNCHANGED <<schedVars, procVars, ioVars, anaVars, callVars>>
    /\ UNCHANGED <<accessVars, botVars, lifeVars>>

\* case <-s.cmdCtx.Done(): break outer
LoopProcessExited ==
    /\ loopPc = "select" /\ ctxDone
    /\ loopPc' = "exiting"
    /\ UNCHANGED <<step, err, input, ops, sagaLog>>
    /\ UNCHANGED <<schedVars, procVars, ioVars, anaVars, callVars>>
    /\ UNCHANGED <<accessVars, botVars, lifeVars>>

----------------------------------------------------------------------------
(* Server.Run, case cmd := <-s.innerCmds: Warn, CloseAccess, OpenAccess *)

\* strings.Contains(playerList, "There are 0 of a max of")
QueryZero == <<"There", "are", "0", "of", "a", "max", "of">>

SayClosing == "say Server is closing now!"
SayCloseSoon == "say Server will close soon"

\* fmt.Sprintf(format, player.Nickname)
Sprintf(format, nick) ==
    CASE format = "whitelist remove %v" /\ nick = "Al" -> "whitelist remove Al"
      [] format = "whitelist remove %v" /\ nick = "Bo" -> "whitelist remove Bo"
      [] format = "kick %v Server is closed" /\ nick = "Al" -> "kick Al Server is closed"
      [] format = "kick %v Server is closed" /\ nick = "Bo" -> "kick Bo Server is closed"
      [] format = "fwhitelist remove %v" /\ nick = "Al" -> "fwhitelist remove Al"
      [] format = "fwhitelist remove %v" /\ nick = "Bo" -> "fwhitelist remove Bo"
      [] format = "kick .%v Server is closed" /\ nick = "Al" -> "kick .Al Server is closed"
      [] format = "kick .%v Server is closed" /\ nick = "Bo" -> "kick .Bo Server is closed"
      [] format = "whitelist add %v" /\ nick = "Al" -> "whitelist add Al"
      [] format = "whitelist add %v" /\ nick = "Bo" -> "whitelist add Bo"
      [] format = "fwhitelist add %v" /\ nick = "Al" -> "fwhitelist add Al"
      [] format = "fwhitelist add %v" /\ nick = "Bo" -> "fwhitelist add Bo"

\* Faulty variant of ClosePlayer: the player is kicked before it is removed.
ClosePlayerKickFirst(player) ==
    CASE player.Type = "Java" ->
            << Sprintf("kick %v Server is closed", player.Nickname),
               Sprintf("whitelist remove %v", player.Nickname) >>
      [] player.Type = "Bedrock" ->
            << Sprintf("kick .%v Server is closed", player.Nickname),
               Sprintf("fwhitelist remove %v", player.Nickname) >>
      [] OTHER -> <<>>

\* Faulty variant of ClosePlayer: a Bedrock player is only removed.
ClosePlayerNoKick(player) ==
    CASE player.Type = "Java" ->
            << Sprintf("whitelist remove %v", player.Nickname),
               Sprintf("kick %v Server is closed", player.Nickname) >>
      [] player.Type = "Bedrock" ->
            << Sprintf("fwhitelist remove %v", player.Nickname) >>
      [] OTHER -> <<>>

\* CloseAccess, lines 367-374: the commands sent for one player.
ClosePlayer(player) ==
    CASE player.Type = "Java" ->
            << Sprintf("whitelist remove %v", player.Nickname),
               Sprintf("kick %v Server is closed", player.Nickname) >>
      [] player.Type = "Bedrock" ->
            << Sprintf("fwhitelist remove %v", player.Nickname),
               Sprintf("kick .%v Server is closed", player.Nickname) >>
      [] OTHER -> <<>>

\* Faulty variant of OpenPlayer: a Bedrock player gets the Java command.
OpenPlayerJavaOnly(player) ==
    << Sprintf("whitelist add %v", player.Nickname) >>

\* OpenAccess, lines 382-387: the command sent for one player.
OpenPlayer(player) ==
    CASE player.Type = "Java" -> << Sprintf("whitelist add %v", player.Nickname) >>
      [] player.Type = "Bedrock" -> << Sprintf("fwhitelist add %v", player.Nickname) >>
      [] OTHER -> <<>>

\* CloseAccess, line 366: for _, player := range s.Config.Players
RECURSIVE CloseLoop(_, _)
CloseLoop(ps, k) ==
    IF k > Len(ps) THEN <<>> ELSE ClosePlayer(ps[k]) \o CloseLoop(ps, k + 1)

\* OpenAccess, line 381: for _, player := range s.Config.Players
RECURSIVE OpenLoop(_, _)
OpenLoop(ps, k) ==
    IF k > Len(ps) THEN <<>> ELSE OpenPlayer(ps[k]) \o OpenLoop(ps, k + 1)

\* Faulty variant of WarnNeeded: the warning is sent whatever the line says.
WarnNeededAlways(playerList) == TRUE

\* !strings.Contains(playerList, "There are 0 of a max of")
WarnNeeded(playerList) == ~Contains(playerList, QueryZero)

\* s.inputsPipe <- the next command of the running handler
EnqueueNext ==
    /\ todo # <<>>
    /\ Len(inputsPipe) < InputsCap
    /\ inputsPipe' = Append(inputsPipe, Head(todo)) /\ queuedAlive' = AfterEnqueue
    /\ todo' = Tail(todo)
    /\ cmdLog' = Append(cmdLog, [ev |-> "sent", what |-> Head(todo)])
    /\ UNCHANGED <<players, botVars, lifeVars>>
    /\ UNCHANGED <<ctxDone, outputsPipe, outputsClosed, writerPc, readerPc, readerText>>
    /\ UNCHANGED <<schedVars, procVars, anaVars, callVars, loopVars>>

\* The running handler has sent its last command (and slept): back to the
\* select.
HandlerEnds ==
    /\ todo = <<>>
    /\ loopPc' = "select"
    /\ UNCHANGED <<step, err, input, ops, sagaLog>>
    /\ UNCHANGED <<schedVars, procVars, ioVars, anaVars, callVars, accessVars, botVars, lifeVars>>

\* case Warn, line 394: the request for "of a max of" is submitted.
WarnBegin ==
    /\ loopPc' = "warn"
    /\ todo' = <<>>
    /\ cmdLog' = <<[ev |-> "handler", what |-> "Warn"]>>
    /\ call' = [call EXCEPT !["loop"] = Await(QueryList, "list")]

\* case Warn, lines 398-403: playerList := <-find, then the warning or not.
WarnDecide ==
    /\ loopPc = "warn" /\ call["loop"].pc = "done"
    /\ IF WarnNeeded(call["loop"].line)
       THEN loopPc' = "warnsay" /\ todo' = <<SayCloseSoon>>
       ELSE loopPc' = "select" /\ todo' = <<>>
    /\ call' = [call EXCEPT !["loop"].pc = "idle"]
    /\ UNCHANGED <<step, err, input, ops, sagaLog, issued, players, botVars, cmdLog, lifeVars>>
    /\ UNCHANGED <<schedVars, procVars, ioVars, anaVars>>

\* line 400: s.inputsPipe <- "say Server will close soon"
WarnSay ==
    /\ loopPc = "warnsay"
    /\ EnqueueNext

\* the handler is over
WarnEnds ==
    /\ loopPc = "warnsay"
    /\ HandlerEnds

\* case CloseAccess, lines 363-376: what the handler sends, in order.
CloseBegin ==
    /\ loopPc' = "close"
    /\ todo' = <<SayClosing>> \o CloseLoop(players, 1)
    /\ cmdLog' = <<[ev |-> "handler", what |-> "CloseAccess"]>>

\* lines 364, 369-373: s.inputsPipe <- ...
CloseSend ==
    /\ loopPc = "close"
    /\ EnqueueNext

\* the handler is over
CloseEnds ==
    /\ loopPc = "close"
    /\ HandlerEnds

\* case OpenAccess, lines 380-389: what the handler sends, in order.
OpenBegin ==
    /\ loopPc' = "open"
    /\ todo' = OpenLoop(players, 1)
    /\ cmdLog' = <<[ev |-> "handler", what |-> "OpenAccess"]>>

\* lines 384, 386: s.inputsPipe <- ...
OpenSend ==
    /\ loopPc = "open"
    /\ EnqueueNext

\* the handler is over
OpenEnds ==
    /\ loopPc = "open"
    /\ HandlerEnds

\* case cmd := <-s.innerCmds, case Warn
LoopScheduledWarn ==
    /\ loopPc = "select" /\ ops < MaxOps
    /\ ops' = ops + 1
    /\ WarnBegin
    /\ UNCHANGED <<step, err, input, sagaLog, issued, players, botVars, lifeVars>>
    /\ UNCHANGED <<schedVars, procVars, ioVars, anaVars>>

\* case cmd := <-s.innerCmds, case CloseAccess
LoopScheduledClose ==
    /\ loopPc = "select" /\ ops < MaxOps
    /\ ops' = ops + 1
    /\ CloseBegin
    /\ UNCHANGED <<step, err, input, sagaLog, players, botVars, lifeVars>>
    /\ UNCHANGED <<schedVars, procVars, ioVars, anaVars, callVars>>

\* case cmd := <-s.innerCmds, case OpenAccess
LoopScheduledOpen ==
    /\ loopPc = "select" /\ ops < MaxOps
    /\ ops' = ops + 1
    /\ OpenBegin
    /\ UNCHANGED <<step, err, input, sagaLog, players, botVars, lifeVars>>
    /\ UNCHANGED <<schedVars, procVars, ioVars, anaVars, callVars>>

----------------------------------------------------------------------------
(* startIOListeners, lines 96-107: the stderr reader *)

\* scanner.Scan() returns false: the process has exited.
StderrEOF ==
    /\ errReaderPc = "scan" /\ ~procAlive /\ loopPc # "panic"
    /\ errReaderPc' = "done"
    /\ UNCHANGED <<cmdCtx, stopPc, stopErr, startLog, stale>>
    /\ UNCHANGED <<schedVars, procVars, ioVars, anaVars, callVars, loopVars, accessVars, botVars>>

----------------------------------------------------------------------------
(* Start, lines 177-237: the scheduling worker around its resolver *)

\* lines 227-229: case <-ctx.Done(): return
SchedulerCancel ==
    /\ schedPc = "timer" /\ ctxDone /\ loopPc # "panic"
    /\ schedPc' = "done"
    /\ UNCHANGED <<Config, now, nextTime, nextCommand, chosenDay>>
    /\ UNCHANGED <<procVars, ioVars, anaVars, callVars, loopVars, accessVars, botVars, lifeVars>>

\* s.innerCmds, assigned at line 285 of Run, after Run's call of Start: nil
\* until then.
innerCmds == IF loopPc \in {"main", "run", "started"} THEN "nil" ELSE "made"

\* lines 220-226: timer.Reset(time.Hour) without a nextTime, otherwise
\* timer.Reset(time.Until(*nextTime)).
TimerDelay(nt, nw) == IF nt = Nil THEN Hour ELSE nt[1] - nw

\* Faulty variant of MayDispatch: the worker sends its command also when the
\* resolver has found nothing.
MayDispatchAlways(nt) == TRUE

\* line 231: if nextTime == nil { continue }
MayDispatch(nt) == nt # Nil

\* lines 230-233: case t := <-timer.C.  The timer was set to time.Until(*nextTime),
\* or to an hour when nothing is scheduled; with a nextTime the worker goes on
\* to s.innerCmds <- nextCommand, which is not part of the select.  The send
\* is on the channel that the field holds when the worker reads it: on a nil
\* channel it blocks for ever.
SchedulerTimer ==
    /\ schedPc = "timer" /\ loopPc # "panic"
    /\ now' = now + TimerDelay(nextTime, now)
    /\ schedPc' = IF ~MayDispatch(nextTime) THEN "resolve"
                  ELSE IF innerCmds = "nil" THEN "send nil" ELSE "send"
    /\ UNCHANGED <<Config, nextTime, nextCommand, chosenDay>>
    /\ UNCHANGED <<procVars, ioVars, anaVars, callVars, loopVars, accessVars, botVars, lifeVars>>

----------------------------------------------------------------------------
(* Server.IsStarted, Server.Start, Server.Stop *)

\* IsStarted, line 112: s.cmdCtx != nil && s.cmdCtx.Err() != nil
IsStarted == cmdCtx # "nil" /\ ctxDone

\* The process and the workers of the last Start that are alive.
Alive ==
    {w \in {"process"} : procAlive}
    \cup {w \in {"run"} : cmdCtx = "set" /\ ~ctxDone}
    \cup {w \in {"input writer"} : writerPc # "done"}
    \cup {w \in {"stdout reader"} : readerPc # "done"}
    \cup {w \in {"stderr reader"} : errReaderPc # "done"}
    \cup {w \in {"output analyzer"} : anaPc # "done"}
    \cup {w \in {"scheduler"} : schedPc # "done"}

\* What can happen to a Start that goes past its first test: nothing; one of
\* StdinPipe, StdoutPipe, StderrPipe fails (lines 57-68); the process cannot
\* be launched, which Cmd.Run reports in its goroutine (lines 131-135).
StartOutcomes == {"nil", "pipe error", "launch error"}

\* What Start returns: lines 117-119, 126-129, 239.  An error of Cmd.Run is
\* printed by the goroutine of line 130 and is not returned.
StartResult(outcome) ==
    IF IsStarted THEN "Already started"
    ELSE IF outcome = "pipe error" THEN "pipe error" ELSE "nil"

\* Start, lines 116-239.  With IsStarted it returns "Already started" and
\* does nothing else.  Otherwise it makes the Cmd and the context; with the
\* three stream handles it makes the pipes and the six goroutines, over
\* whatever an earlier Start has left.  A process that cannot be launched is
\* one that is not running: Cmd.Run returns at once and the handles are closed.
Start(outcome) ==
    /\ startLog' = [n |-> startLog.n + 1, ctx |-> cmdCtx, done |-> ctxDone,
                    result |-> StartResult(outcome)]
    /\ IF IsStarted
       THEN /\ UNCHANGED <<cmdCtx, errReaderPc, stale>>
            /\ UNCHANGED <<nextTime, nextCommand, chosenDay, schedPc>>
            /\ UNCHANGED <<procAlive, autosave, stdoutBuf, ioVars, anaVars>>
       ELSE IF outcome = "pipe error"
       THEN /\ stale' = stale \cup Alive
            /\ cmdCtx' = "unwatched" /\ ctxDone' = FALSE
            /\ UNCHANGED <<nextTime, nextCommand, chosenDay, schedPc, errReaderPc>>
            /\ UNCHANGED <<procAlive, autosave, stdoutBuf, anaVars>>
            /\ UNCHANGED <<inputsPipe, queuedAlive, outputsPipe, outputsClosed, writerPc,
                           readerPc, readerText>>
       ELSE /\ stale' = stale \cup Alive
            /\ procAlive' = (outcome = "nil") /\ autosave' = TRUE /\ stdoutBuf' = <<>>
            /\ cmdCtx' = "set" /\ ctxDone' = FALSE
            /\ inputsPipe' = <<>> /\ queuedAlive' = 0 /\ outputsPipe' = <<>> /\ outputsClosed' = FALSE
            /\ writerPc' = "select"
            /\ readerPc' = "scan" /\ readerText' = <<>>
            /\ errReaderPc' = "scan"
            /\ anaPc' = "select" /\ reqPtr' = None /\ anaText' = <<>> /\ scanned' = <<>>
            /\ schedPc' = "resolve"
            /\ nextTime' = Nil /\ nextCommand' = "Backup" /\ chosenDay' = 0 - 1
    /\ UNCHANGED <<Config, now, chatter>>

\* Faulty variant of StopBegin: s.cmdCtx is not tested against nil.
StopBeginUnchecked ==
    /\ stopPc' = IF ~ctxDone THEN "send" ELSE "workers"
    /\ UNCHANGED stopErr
    /\ cmdLog' = <<[ev |-> "handler", what |-> "Stop"]>>

\* Stop, lines 263-266: "Already stopped." without a context; with a context
\* that is not cancelled the stop command is next, with a cancelled one the
\* wait for the workers.
StopBegin ==
    /\ IF cmdCtx = "nil"
       THEN stopErr' = "Already stopped." /\ stopPc' = "returned"
       ELSE /\ stopPc' = IF ~ctxDone THEN "send" ELSE "workers"
            /\ UNCHANGED stopErr
    /\ cmdLog' = <<[ev |-> "handler", what |-> "Stop"]>>

\* Stop, line 267: s.inputsPipe <- "stop"
StopSend ==
    /\ stopPc = "send"
    /\ Len(inputsPipe) < InputsCap
    /\ inputsPipe' = Append(inputsPipe, "stop") /\ queuedAlive' = AfterEnqueue
    /\ cmdLog' = Append(cmdLog, [ev |-> "sent", what |-> "stop"])
    /\ stopPc' = "wait"
    /\ UNCHANGED <<players, botVars, todo>>
    /\ UNCHANGED <<cmdCtx, stopErr, startLog, errReaderPc, stale>>
    /\ UNCHANGED <<ctxDone, outputsPipe, outputsClosed, writerPc, readerPc, readerText>>
    /\ UNCHANGED <<schedVars, procVars, anaVars, callVars, loopVars>>

\* Faulty variant of CtxFinished: Stop does not wait for the process.
CtxFinishedAlways == TRUE

\* Stop, line 268: <-s.cmdCtx.Done()
CtxFinished == ctxDone

\* Stop, line 268: the wait for the cancellation that follows Cmd.Run.
StopProcessExited ==
    /\ stopPc = "wait"
    /\ CtxFinished
    /\ stopPc' = "workers"
    /\ UNCHANGED <<cmdCtx, stopErr, startLog, errReaderPc, stale>>
    /\ UNCHANGED <<schedVars, procVars, ioVars, anaVars, callVars, loopVars, accessVars, botVars>>

\* Faulty variant of WorkersDone: Stop does not wait for the workers.
WorkersDoneAlways == TRUE

\* Stop, line 271: s.WaitWorkers.Wait() returns: the three IO workers, the
\* analyzer and the scheduler have called Done.
WorkersDone ==
    /\ writerPc = "done" /\ readerPc = "done" /\ errReaderPc = "done"
    /\ anaPc = "done" /\ schedPc = "done"

\* Stop, lines 271-275: after the wait, Cmd, cmdCtx and contextCancel are
\* cleared and nil is returned.
StopWorkersExited ==
    /\ stopPc = "workers"
    /\ WorkersDone
    /\ cmdCtx' = "nil"
    /\ stopErr' = "nil"
    /\ stopPc' = "returned"
    /\ UNCHANGED <<startLog, errReaderPc, stale>>
    /\ UNCHANGED <<schedVars, procVars, ioVars, anaVars, callVars, loopVars, accessVars, botVars>>

----------------------------------------------------------------------------
(* Server.Run: update, reboot, the commands of the scheduling worker, exit *)

\* case "update", line 312: s.Stop()
LoopUpdateCommand ==
    /\ loopPc = "select" /\ ops < MaxOps
    /\ ops' = ops + 1
    /\ loopPc' = "update"
    /\ StopBegin
    /\ UNCHANGED <<step, err, input, sagaLog, players, botVars, todo>>
    /\ UNCHANGED <<cmdCtx, startLog, errReaderPc, stale>>
    /\ UNCHANGED <<schedVars, procVars, ioVars, anaVars, callVars>>

\* Faulty variant of UpdateNext: the binaries are refreshed after Start.
UpdateNextRefreshLast(pc) ==
    CASE pc = "update" -> "restart"
      [] pc = "restart" -> "refresh"
      [] pc = "refresh" -> "select"

\* case "update", lines 312-329: the statements after s.Stop(), in their
\* order: BackupFolder, then LoadPaper and LoadGeyser, then s.Start, then the
\* select again.
UpdateNext(pc) ==
    CASE pc = "update" -> "refresh"
      [] pc = "refresh" -> "restart"
      [] pc = "restart" -> "select"

\* What LoadPaper does to its caller: it returns, or it panics (part_002).
RefreshOutcomes == {"nil", "panic"}

\* case "update", lines 313-320: Stop has returned; a Stop error panics;
\* BackupFolder, whose error is printed and panics.
UpdateArchive ==
    /\ loopPc = "update" /\ stopPc = "returned"
    /\ stopPc' = "none"
    /\ IF stopErr # "nil"
       THEN loopPc' = "panic" /\ err' = stopErr /\ UNCHANGED cmdLog
       ELSE \E outcome \in ArchiveOutcomes :
               /\ cmdLog' = Append(cmdLog, [ev |-> "step", what |-> "BackupFolder"])
               /\ err' = outcome
               /\ loopPc' = IF outcome # "nil" THEN "panic" ELSE UpdateNext("update")
    /\ UNCHANGED <<step, input, ops, sagaLog, players, botVars, todo>>
    /\ UNCHANGED <<cmdCtx, stopErr, startLog, errReaderPc, stale>>
    /\ UNCHANGED <<schedVars, procVars, ioVars, anaVars, callVars>>

\* case "update", lines 321-325: LoadPaper, which panics on its errors;
\* LoadGeyser, whose error is printed.
UpdateRefresh ==
    /\ loopPc = "refresh"
    /\ cmdLog' = Append(cmdLog, [ev |-> "step", what |-> "LoadPaper"])
    /\ \E outcome \in RefreshOutcomes :
          /\ loopPc' = IF outcome # "nil" THEN "panic" ELSE UpdateNext("refresh")
          /\ err' = outcome
    /\ UNCHANGED <<step, input, ops, sagaLog, players, botVars, todo>>
    /\ UNCHANGED <<schedVars, procVars, ioVars, anaVars, callVars, lifeVars>>

\* case "update", lines 326-329: s.Start(runCtx), whose error panics.
UpdateRestart ==
    /\ loopPc = "restart"
    /\ cmdLog' = Append(cmdLog, [ev |-> "step", what |-> "Start"])
    /\ \E outcome \in StartOutcomes :
          /\ Start(outcome)
          /\ err' = StartResult(outcome)
          /\ loopPc' = IF StartResult(outcome) # "nil" THEN "panic"
                        ELSE UpdateNext("restart")
    /\ UNCHANGED <<step, input, ops, sagaLog, stopPc, stopErr>>
    /\ UNCHANGED <<callVars, players, botVars, todo>>

\* case "reboot", line 340: s.Stop()
LoopRebootCommand ==
    /\ loopPc = "select" /\ ops < MaxOps
    /\ ops' = ops + 1
    /\ loopPc' = "reboot"
    /\ StopBegin
    /\ UNCHANGED <<step, err, input, sagaLog, players, botVars, todo>>
    /\ UNCHANGED <<cmdCtx, startLog, errReaderPc, stale>>
    /\ UNCHANGED <<schedVars, procVars, ioVars, anaVars, callVars>>

\* case "reboot", lines 340-345: Stop has returned, its error is dropped;
\* the sleep; s.Start(runCtx), whose error panics.
RebootRestart ==
    /\ loopPc = "reboot" /\ stopPc = "returned"
    /\ stopPc' = "none"
    /\ \E outcome \in StartOutcomes :
          /\ Start(outcome)
          /\ loopPc' = IF StartResult(outcome) # "nil" THEN "panic" ELSE "select"
          /\ err' = StartResult(outcome)
    /\ UNCHANGED <<step, input, ops, sagaLog, stopErr>>
    /\ UNCHANGED <<callVars, accessVars, botVars>>

\* line 353: case cmd := <-s.innerCmds, with the scheduling worker's
\* s.innerCmds <- nextCommand; then the switch on cmd.
ReceiveInnerCmd(cmd) ==
    /\ loopPc = "select" /\ ops < MaxOps
    /\ schedPc = "send" /\ nextCommand = cmd
    /\ schedPc' = "resolve"
    /\ ops' = ops + 1
    /\ UNCHANGED <<Config, now, nextTime, nextCommand, chosenDay>>
    /\ UNCHANGED <<procVars, ioVars, anaVars, lifeVars, players, botVars, input>>

\* case Backup
LoopInnerBackup ==
    /\ ReceiveInnerCmd("Backup")
    /\ BackupBegin
    /\ UNCHANGED <<issued, todo, cmdLog>>

\* case CloseAccess
LoopInnerClose ==
    /\ ReceiveInnerCmd("CloseAccess")
    /\ CloseBegin
    /\ UNCHANGED <<step, err, sagaLog, callVars>>

\* case OpenAccess
LoopInnerOpen ==
    /\ ReceiveInnerCmd("OpenAccess")
    /\ OpenBegin
    /\ UNCHANGED <<step, err, sagaLog, callVars>>

\* case Warn
LoopInnerWarn ==
    /\ ReceiveInnerCmd("Warn")
    /\ WarnBegin
    /\ UNCHANGED <<step, err, sagaLog, issued>>

\* lines 410-411: fmt.Println("Exiting.."); return s.Stop()
LoopExitStop ==
    /\ loopPc = "exiting" /\ stopPc = "none"
    /\ StopBegin
    /\ UNCHANGED <<loopVars, players, botVars, todo>>
    /\ UNCHANGED <<cmdCtx, startLog, errReaderPc, stale>>
    /\ UNCHANGED <<schedVars, procVars, ioVars, anaVars, callVars>>

\* line 411: Stop has returned, and Run with it.
RunExits ==
    /\ loopPc = "exiting" /\ stopPc = "returned"
    /\ loopPc' = "exited"
    /\ stopPc' = "none"
    /\ UNCHANGED <<step, err, input, ops, sagaLog>>
    /\ UNCHANGED <<cmdCtx, stopErr, startLog, errReaderPc, stale>>
    /\ UNCHANGED <<schedVars, procVars, ioVars, anaVars, callVars, accessVars, botVars>>

----------------------------------------------------------------------------
(* main and the first statements of Server.Run *)

\* main, lines 422-424: LoadPaper when the work directory has no paper.jar.
MainLoadPaper ==
    /\ loopPc = "main"
    /\ \E outcome \in RefreshOutcomes :
          /\ loopPc' = IF outcome # "nil" THEN "panic" ELSE "run"
          /\ err' = outcome
    /\ UNCHANGED <<step, input, ops, sagaLog>>
    /\ UNCHANGED <<schedVars, procVars, ioVars, anaVars, callVars, accessVars, botVars, lifeVars>>

\* Run, lines 280-283: err := s.Start(ctx); an error is returned to main,
\* which panics with it (lines 426-429): "panic" with the error in err.
RunStart ==
    /\ loopPc = "run"
    /\ \E outcome \in StartOutcomes :
          /\ Start(outcome)
          /\ err' = StartResult(outcome)
          /\ loopPc' = IF StartResult(outcome) # "nil" THEN "panic" ELSE "started"
    /\ UNCHANGED <<step, input, ops, sagaLog, stopPc, stopErr>>
    /\ UNCHANGED <<callVars, accessVars, botVars>>

\* Run, lines 285-298: s.innerCmds = make(chan InnerCmd), the stdin
\* goroutine; the loop is at its select.
RunMakeInnerCmds ==
    /\ loopPc = "started"
    /\ loopPc' = "select"
    /\ UNCHANGED <<step, err, input, ops, sagaLog>>
    /\ UNCHANGED <<schedVars, procVars, ioVars, anaVars, callVars, accessVars, botVars, lifeVars>>

----------------------------------------------------------------------------
(* Callers that drive the analyzer in SpecEngine *)

HarnessCallers == {"c1", "c2"}

\* The exchanges a caller may start: the query and the command that asks
\* the process for a matching line.
Exchanges == {Await(QueryList, "list"), Await(QuerySaved, "save-all")}

\* A caller starts a correlated wait.
HarnessAwait(c) ==
    /\ call[c].pc \in {"idle", "done"}
    /\ issued[c] < MaxRequests
    /\ issued' = [issued EXCEPT ![c] = issued[c] + 1]
    /\ \E x \in Exchanges : call' = [call EXCEPT ![c] = x]
    /\ UNCHANGED <<schedVars, procVars, ioVars, anaVars, loopVars>>
    /\ UNCHANGED <<accessVars, botVars, lifeVars>>

----------------------------------------------------------------------------
(* Initial states *)

\* The scheduling worker, where it is not the subject.
SchedulerIdle ==
    /\ Config = [WarnBefore |-> <<>>, DaysSchedule |-> <<>>, Timezone |-> ZoneFixed]
    /\ now = 0
    /\ nextTime = Nil
    /\ nextCommand = "Backup"
    /\ chosenDay = 0 - 1
    /\ schedPc = "resolve"

\* The state in which Run enters its loop: Start has launched the process
\* and its workers, nothing was printed or sent.
SupervisorIdle ==
    /\ procAlive = TRUE /\ autosave = TRUE /\ stdoutBuf = <<>> /\ chatter = 0
    /\ ctxDone = FALSE
    /\ inputsPipe = <<>> /\ queuedAlive = 0 /\ outputsPipe = <<>> /\ outputsClosed = FALSE
    /\ writerPc = "select"
    /\ readerPc = "scan" /\ readerText = <<>>
    /\ anaPc = "select" /\ reqPtr = None /\ anaText = <<>> /\ scanned = <<>>
    /\ call = [c \in Callers |-> Idle]
    /\ issued = [c \in Callers |-> 0]
    /\ loopPc = "select" /\ step = 0 /\ err = "nil" /\ input = "" /\ ops = 0
    /\ sagaLog = <<>>

\* Run has called Start once: s.cmdCtx is set, the stderr reader scans, no
\* handler is running, no Stop was called.
LifecycleIdle ==
    /\ todo = <<>> /\ cmdLog = <<>>
    /\ cmdCtx = "set"
    /\ stopPc = "none" /\ stopErr = "nil"
    /\ startLog = [n |-> 1, ctx |-> "nil", done |-> FALSE, result |-> "nil"]
    /\ errReaderPc = "scan"
    /\ stale = {}
    /\ BotIdle

----------------------------------------------------------------------------
(* Configurations and instants the resolver is applied to *)

DayTime(h, m) == [hours |-> h, minutes |-> m]
TimeInterval(s, e) == [Start |-> s, End |-> e]

Intervals ==
    { TimeInterval(DayTime(8, 0), DayTime(22, 0)),
      TimeInterval(DayTime(21, 30), DayTime(22, 0)),
      TimeInterval(DayTime(5, 0), DayTime(5, 0)) }

\* Warn lead times: 30m, 24h.
WarnOffsets == {30 * Minute, 24 * Hour}

ScheduleDays == {Sunday, Monday, Tuesday}

WarnLists == UNION { [1..n -> WarnOffsets] : n \in 0..MaxWarn }

DaysSchedules ==
    UNION { [D -> Intervals] :
            D \in { S \in SUBSET ScheduleDays : Cardinality(S) <= MaxEntries } }

Configs ==
    [WarnBefore : WarnLists, DaysSchedule : DaysSchedules, Timezone : Zones]

TimesOfDay ==
    { 0, 2 * Hour + 30, 4 * Hour + 59, 5 * Hour, 7 * Hour,
      21 * Hour + 29, 21 * Hour + 30, 22 * Hour }

Nows == { d * 24 * Hour + t : d \in 0..6, t \in TimesOfDay }

----------------------------------------------------------------------------
(* SpecResolver: the scheduling worker's resolver *)

ResolverInit ==
    /\ Config \in Configs
    /\ now \in Nows
    /\ nextTime = Nil
    /\ nextCommand = "Backup"
    /\ chosenDay = 0 - 1
    /\ schedPc = "resolve"
    /\ SupervisorIdle
    /\ LifecycleIdle /\ players = ScenarioPlayers

\* Lines 182-219: one pass of the resolver.
RunResolver ==
    /\ schedPc = "resolve"
    /\ LET r == Resolve(now, Config)
       IN  /\ nextTime' = r.nextTime
           /\ nextCommand' = r.nextCommand
           /\ chosenDay' = r.chosenDay
    /\ schedPc' = "timer"
    /\ UNCHANGED <<Config, now>>
    /\ UNCHANGED <<procVars, ioVars, anaVars, callVars, loopVars>>
    /\ UNCHANGED <<accessVars, botVars, lifeVars>>

ResolverNext == RunResolver

SpecResolver == ResolverInit /\ [][ResolverNext]_vars

----------------------------------------------------------------------------
(* Spec: the event loop, the process, its IO workers and the analyzer.     *)

Init == SchedulerIdle /\ SupervisorIdle /\ LifecycleIdle /\ players = ScenarioPlayers

\* The process without its unsolicited lines, the IO workers, the analyzer
\* and the callers' sends.
AskedWorkers ==
    \/ ProcessExit
    \/ RunReturns
    \/ WriterWrite
    \/ WriterCancel
    \/ ReaderScan
    \/ ReaderSend
    \/ ReaderEOF
    \/ \E c \in Callers : AnalyzerReceive(c)
    \/ AnalyzerAccepted
    \/ AnalyzerIdleLine
    \/ AnalyzerHoldingLine
    \/ AnalyzerDeliver
    \/ AnalyzerClosed
    \/ AnalyzerCancel
    \/ \E c \in Callers : CallerSend(c)

Workers ==
    \/ ProcessChatter
    \/ AskedWorkers

Next ==
    \/ Workers
    \/ LoopBackupCommand
    \/ LoopScheduledBackup
    \/ BackupSecond
    \/ BackupArchive
    \/ BackupReturn
    \/ LoopBackupDone
    \/ LoopReadLine
    \/ LoopForward
    \/ LoopStopCommand
    \/ LoopProcessExited

Spec == Init /\ [][Next]_vars

----------------------------------------------------------------------------
(* SpecLegacy: the event loop of the earlier revision of the launcher,     *)
(* papermc-launcher/launcher.go, with the Backup of that revision.  Its     *)
(* exchanges, its IO workers and its analyzer read as in the current one;   *)
(* the step after BackupFolder differs.                                      *)

\* launcher.go, Backup, lines 333-342: <-find of the second exchange,
\* BackupFolder; `if err != nil { return err }'; otherwise the sleep and the
\* third exchange.  BackupFolder panics as in the current revision when
\* bakCmd.Run() fails with an error that is not an *exec.ExitError.
LegacyBackupArchive ==
    /\ loopPc = "backup" /\ step = 2 /\ call["loop"].pc = "done"
    /\ sagaLog' = Append(sagaLog, [ev |-> "archive", what |-> <<>>])
    /\ \E outcome \in ArchiveOutcomes :
          /\ err' = outcome
          /\ CASE outcome = "panic" ->
                     /\ loopPc' = "panic"
                     /\ writerPc' = "dead" /\ readerPc' = "dead" /\ anaPc' = "dead"
                     /\ UNCHANGED <<step, call>>
               [] outcome = "error" ->
                     /\ loopPc' = "returned"
                     /\ UNCHANGED <<step, call, writerPc, readerPc, anaPc>>
               [] OTHER ->
                     /\ step' = 3
                     /\ call' = [call EXCEPT
                                    !["loop"] = Await(BackupQuery(3), BackupCommand(3))]
                     /\ UNCHANGED <<loopPc, writerPc, readerPc, anaPc>>
    /\ UNCHANGED <<input, ops, issued>>
    /\ UNCHANGED <<ctxDone, inputsPipe, queuedAlive, outputsPipe, outputsClosed, readerText>>
    /\ UNCHANGED <<reqPtr, anaText, scanned>>
    /\ UNCHANGED <<schedVars, procVars>>
    /\ UNCHANGED <<accessVars, botVars, lifeVars>>

LegacyNext ==
    \/ AskedWorkers
    \/ LoopBackupCommand
    \/ LoopScheduledBackup
    \/ BackupSecond
    \/ LegacyBackupArchive
    \/ BackupReturn
    \/ LoopBackupDone
    \/ LoopReadLine
    \/ LoopForward

SpecLegacy == Init /\ [][LegacyNext]_vars

----------------------------------------------------------------------------
(* SpecBot: the chat bot's ChatProfile consuming the records of a message.  *)
(* A time.Time is modelled by its date, [year, month, day]; the amounts and  *)
(* balances of the model are far from the limits of int64 and uint32.        *)

\* time.Time.Before on dates
Before(a, b) ==
    \/ a.year < b.year
    \/ a.year = b.year /\ a.month < b.month
    \/ a.year = b.year /\ a.month = b.month /\ a.day < b.day

\* The year of time.Now() while the message is parsed.
CurrentYear == 2026

\* ParseMessage, lines 73-78: the date of a line `day.month' is that day of
\* the current year.
ParsedDate(day, month) == [year |-> CurrentYear, month |-> month, day |-> day]

\* ChatProfile.ConsumeRecord, lines 341-356.
ConsumeRecord(cp, r) ==
    LET advanced == Before(cp.LastRecordTime, r.Date)
        daysPassed == r.Date.day - cp.LastRecordTime.day
        credited ==
            IF ~advanced THEN cp.CurrentBalance
            ELSE IF cp.LastRecordTime.month # r.Date.month THEN 0
            ELSE IF cp.LastRecordTime.day # r.Date.day
                 THEN cp.CurrentBalance + cp.DayLimit * daysPassed
                 ELSE cp.CurrentBalance
        last == IF advanced THEN r.Date ELSE cp.LastRecordTime
    IN  [cp EXCEPT !.LastRecordTime = last,
                   !.CurrentBalance = IF last.month = r.Date.month
                                      THEN credited - r.Amount
                                      ELSE credited]

\* lines 139-140: for _, record := range records { chatSettings.ConsumeRecord(record)
ConsumeNext ==
    /\ records # <<>>
    /\ chatSettings' = ConsumeRecord(chatSettings, Head(records))
    /\ records' = Tail(records)
    /\ UNCHANGED <<schedVars, procVars, ioVars, anaVars, callVars, loopVars>>
    /\ UNCHANGED <<accessVars, lifeVars>>

\* Dates of the model: February and March of last year and of this year.
BotDays == {1, 20, 28}
BotMonths == {2, 3}
BotProfiles ==
    [DayLimit : {100}, CurrentBalance : {0, 50},
     LastRecordTime : [year : {CurrentYear - 1, CurrentYear}, month : BotMonths,
                       day : BotDays]]
BotRecords ==
    {[Date |-> ParsedDate(d, m), Amount |-> 30] : d \in BotDays, m \in BotMonths}

BotInit ==
    /\ SchedulerIdle /\ SupervisorIdle
    /\ todo = <<>> /\ cmdLog = <<>> /\ cmdCtx = "set"
    /\ stopPc = "none" /\ stopErr = "nil"
    /\ startLog = [n |-> 1, ctx |-> "nil", done |-> FALSE, result |-> "nil"]
    /\ errReaderPc = "scan" /\ stale = {}
    /\ players = ScenarioPlayers
    /\ chatSettings \in BotProfiles
    /\ records \in UNION {[1..n -> BotRecords] : n \in 1..MaxRecords}

BotNext == ConsumeNext

SpecBot == BotInit /\ [][BotNext]_vars

----------------------------------------------------------------------------
(* SpecEngine: the analyzer and the IO workers, driven by two callers.     *)

EngineNext ==
    \/ Workers
    \/ \E c \in HarnessCallers : HarnessAwait(c)

SpecEngine == Init /\ [][EngineNext]_vars

----------------------------------------------------------------------------
(* SpecAccess: the event loop dispatching Warn, CloseAccess and OpenAccess,  *)
(* for every list of configured players.                                     *)

PlayerLists ==
    UNION { [1..n -> {Player("Java", "Al"), Player("Bedrock", "Bo")}] : n \in 0..MaxPlayers }

AccessInit ==
    SchedulerIdle /\ SupervisorIdle /\ LifecycleIdle /\ players \in PlayerLists

AccessNext ==
    \/ Workers
    \/ LoopScheduledWarn
    \/ WarnDecide
    \/ WarnSay
    \/ WarnEnds
    \/ LoopScheduledClose
    \/ CloseSend
    \/ CloseEnds
    \/ LoopScheduledOpen
    \/ OpenSend
    \/ OpenEnds
    \/ LoopProcessExited

SpecAccess == AccessInit /\ [][AccessNext]_vars

----------------------------------------------------------------------------
(* SpecServer: Server.Run after its first Start, with the process, all the  *)
(* workers, the operator's commands and the scheduling worker's commands.   *)

\* Monday 08:00-22:00 with a warning 30 minutes before the end.
ServerConfig ==
    [WarnBefore |-> <<30 * Minute>>,
     DaysSchedule |-> [d \in {Monday} |-> TimeInterval(DayTime(8, 0), DayTime(22, 0))],
     Timezone |-> ZoneFixed]

\* Instants of the Monday: before the backup and the opening, before the
\* warning and the closing.
ServerNows == {4 * Hour + 59, 21 * Hour + 29}

\* The Server that main has made, line 425: nothing was started.
NeverStarted ==
    /\ Config = ServerConfig
    /\ nextTime = Nil /\ nextCommand = "Backup" /\ chosenDay = 0 - 1
    /\ schedPc = "done"
    /\ procAlive = FALSE /\ autosave = TRUE /\ stdoutBuf = <<>> /\ chatter = 0
    /\ ctxDone = FALSE
    /\ inputsPipe = <<>> /\ queuedAlive = 0 /\ outputsPipe = <<>> /\ outputsClosed = FALSE
    /\ writerPc = "done"
    /\ readerPc = "done" /\ readerText = <<>>
    /\ errReaderPc = "done"
    /\ anaPc = "done" /\ reqPtr = None /\ anaText = <<>> /\ scanned = <<>>
    /\ call = [c \in Callers |-> Idle]
    /\ issued = [c \in Callers |-> 0]
    /\ step = 0 /\ err = "nil" /\ input = "" /\ ops = 0
    /\ sagaLog = <<>>
    /\ players = ScenarioPlayers /\ todo = <<>> /\ cmdLog = <<>>
    /\ cmdCtx = "nil"
    /\ stopPc = "none" /\ stopErr = "nil"
    /\ startLog = [n |-> 0, ctx |-> "nil", done |-> FALSE, result |-> "nil"]
    /\ stale = {}
    /\ BotIdle

ServerInit ==
    /\ Config = ServerConfig
    /\ now \in ServerNows
    /\ nextTime = Nil /\ nextCommand = "Backup" /\ chosenDay = 0 - 1
    /\ schedPc = "resolve"
    /\ SupervisorIdle /\ LifecycleIdle /\ players = ScenarioPlayers

\* The steps of the stderr reader, of the scheduling worker and of the
\* event loop with Start and Stop.
ServerSteps ==
    \/ StderrEOF
    \/ RunResolver
    \/ SchedulerTimer
    \/ SchedulerCancel
    \/ LoopBackupCommand
    \/ BackupSecond
    \/ BackupArchive
    \/ BackupReturn
    \/ LoopBackupDone
    \/ LoopReadLine
    \/ LoopForward
    \/ LoopStopCommand
    \/ LoopProcessExited
    \/ LoopUpdateCommand
    \/ UpdateArchive
    \/ UpdateRefresh
    \/ UpdateRestart
    \/ LoopRebootCommand
    \/ RebootRestart
    \/ LoopInnerBackup
    \/ LoopInnerClose
    \/ LoopInnerOpen
    \/ LoopInnerWarn
    \/ WarnDecide
    \/ WarnSay
    \/ WarnEnds
    \/ CloseSend
    \/ CloseEnds
    \/ OpenSend
    \/ OpenEnds
    \/ LoopExitStop
    \/ StopSend
    \/ StopProcessExited
    \/ StopWorkersExited
    \/ RunExits

ServerNext ==
    \/ Workers
    \/ ServerSteps

SpecServer == ServerInit /\ [][ServerNext]_vars

----------------------------------------------------------------------------
(* SpecMain: main from its first statement: LoadPaper, Server.Run with its   *)
(* first Start, the assignment of innerCmds, then all of SpecServer.  The    *)
(* process prints what it is asked for and nothing else.                     *)

\* main is about to look for paper.jar.
MainInit ==
    /\ NeverStarted
    /\ now \in ServerNows
    /\ loopPc = "main"

MainNext ==
    \/ MainLoadPaper
    \/ RunStart
    \/ RunMakeInnerCmds
    \/ AskedWorkers
    \/ ServerSteps

SpecMain == MainInit /\ [][MainNext]_vars

----------------------------------------------------------------------------
(* SpecScheduler: the scheduling worker of a running Server and the event    *)
(* loop's receive on innerCmds.  What a handler does is left out; the time   *)
(* it takes is not.                                                          *)

\* Nothing but the Monday backup, in a week that ends with the clock set back.
BackupOnlyConfig ==
    [WarnBefore |-> <<>>, DaysSchedule |-> <<>>, Timezone |-> ZoneBack]

\* A Monday that opens at the hour of the backup.
TiedOpenConfig ==
    [WarnBefore |-> <<30 * Minute>>,
     DaysSchedule |-> [d \in {Monday} |-> TimeInterval(DayTime(5, 0), DayTime(22, 0))],
     Timezone |-> ZoneFixed]

SchedulerConfigs == {ServerConfig, BackupOnlyConfig, TiedOpenConfig}

\* How long a handler may keep the event loop after the timer has fired.
HandlerTimes == {Minute, 14 * Hour}

SchedulerInit ==
    /\ Config \in SchedulerConfigs
    /\ now \in Nows
    /\ nextTime = Nil /\ nextCommand = "Backup" /\ chosenDay = 0 - 1
    /\ schedPc = "resolve"
    /\ SupervisorIdle /\ LifecycleIdle /\ players = ScenarioPlayers

\* lines 353-405: case cmd := <-s.innerCmds and the switch on cmd, up to the
\* call of the command's handler.
InnerCmdTaken ==
    /\ \E cmd \in InnerCmd : ReceiveInnerCmd(cmd)
    /\ loopPc' = "handler"
    /\ UNCHANGED <<step, err, sagaLog, callVars, todo, cmdLog>>

\* The handler returns and the loop is at its select again.
HandlerReturns ==
    /\ loopPc = "handler"
    /\ loopPc' = "select"
    /\ UNCHANGED <<step, err, input, ops, sagaLog>>
    /\ UNCHANGED <<schedVars, procVars, ioVars, anaVars, callVars, accessVars, botVars, lifeVars>>

\* line 233: the worker is blocked in s.innerCmds <- nextCommand while the
\* handler runs, and the clock goes on.
HandlerTakesTime ==
    /\ loopPc = "handler" /\ schedPc = "send"
    /\ now = nextTime[1]
    /\ \E d \in HandlerTimes : now' = now + d
    /\ UNCHANGED <<Config, nextTime, nextCommand, chosenDay, schedPc>>
    /\ UNCHANGED <<procVars, ioVars, anaVars, callVars, loopVars, accessVars, botVars, lifeVars>>

SchedulerNext ==
    \/ RunResolver
    \/ SchedulerTimer
    \/ InnerCmdTaken
    \/ HandlerReturns
    \/ HandlerTakesTime

SpecScheduler == SchedulerInit /\ [][SchedulerNext]_vars

----------------------------------------------------------------------------
(* SpecCalls: Start and Stop called on a Server in any order, from a Server  *)
(* that was never started.  No request is submitted and no timer expires.    *)

StoppedServer ==
    /\ NeverStarted
    /\ now = 4 * Hour + 59
    /\ loopPc = "caller"

\* s.Start(ctx)
CallStart ==
    /\ loopPc = "caller" /\ stopPc = "none" /\ ops < MaxCalls
    /\ ops' = ops + 1
    /\ \E outcome \in StartOutcomes :
          /\ Start(outcome)
          /\ err' = StartResult(outcome)
    /\ UNCHANGED <<loopPc, step, input, sagaLog, stopPc, stopErr>>
    /\ UNCHANGED <<callVars, accessVars, botVars>>

\* s.Stop()
CallStop ==
    /\ loopPc = "caller" /\ stopPc = "none" /\ ops < MaxCalls
    /\ ops' = ops + 1
    /\ StopBegin
    /\ UNCHANGED <<loopPc, step, err, input, sagaLog, players, botVars, todo>>
    /\ UNCHANGED <<cmdCtx, startLog, errReaderPc, stale>>
    /\ UNCHANGED <<schedVars, procVars, ioVars, anaVars, callVars>>

\* Stop has returned to its caller.
CallStopReturns ==
    /\ loopPc = "caller" /\ stopPc = "returned"
    /\ stopPc' = "none"
    /\ err' = stopErr
    /\ UNCHANGED <<loopPc, step, input, ops, sagaLog>>
    /\ UNCHANGED <<cmdCtx, stopErr, startLog, errReaderPc, stale>>
    /\ UNCHANGED <<schedVars, procVars, ioVars, anaVars, callVars, accessVars, botVars>>

CallsNext ==
    \/ CallStart
    \/ CallStop
    \/ CallStopReturns
    \/ StopSend
    \/ StopProcessExited
    \/ StopWorkersExited
    \/ ProcessChatter
    \/ ProcessExit
    \/ RunReturns
    \/ WriterWrite
    \/ WriterCancel
    \/ ReaderScan
    \/ ReaderSend
    \/ ReaderEOF
    \/ StderrEOF
    \/ AnalyzerIdleLine
    \/ AnalyzerClosed
    \/ AnalyzerCancel
    \/ RunResolver
    \/ SchedulerCancel

SpecCalls == StoppedServer /\ [][CallsNext]_vars

----------------------------------------------------------------------------
(* SpecLive: the event loop with its Backup, its pass-through and its       *)
(* scheduled commands, the process and the IO workers, where every step of  *)
(* the program that can be taken is eventually taken.  What the operator,   *)
(* the schedule and the process do of their own is not forced.              *)

LiveNext ==
    \/ Next
    \/ StderrEOF
    \/ LoopScheduledWarn
    \/ WarnDecide
    \/ WarnSay
    \/ WarnEnds
    \/ LoopScheduledClose
    \/ CloseSend
    \/ CloseEnds
    \/ LoopScheduledOpen
    \/ OpenSend
    \/ OpenEnds

\* The steps of the program's goroutines.
Progress ==
    \/ RunReturns
    \/ WriterWrite
    \/ WriterCancel
    \/ ReaderScan
    \/ ReaderSend
    \/ ReaderEOF
    \/ StderrEOF
    \/ \E c \in Callers : AnalyzerReceive(c)
    \/ AnalyzerAccepted
    \/ AnalyzerIdleLine
    \/ AnalyzerHoldingLine
    \/ AnalyzerDeliver
    \/ AnalyzerClosed
    \/ AnalyzerCancel
    \/ \E c \in Callers : CallerSend(c)
    \/ BackupSecond
    \/ BackupArchive
    \/ BackupReturn
    \/ LoopBackupDone
    \/ LoopForward
    \/ LoopProcessExited
    \/ WarnDecide
    \/ WarnSay
    \/ WarnEnds
    \/ CloseSend
    \/ CloseEnds
    \/ OpenSend
    \/ OpenEnds

SpecLive == Init /\ [][LiveNext]_vars /\ WF_vars(Progress)

\* The steps of main, of the event loop inside a handler, of Stop and of the
\* goroutines, the expiry of the timer and the receive of a command that the
\* scheduling worker is sending.  The operator's lines and the exit of the
\* process are not among them.
MainProgress ==
    \/ Progress
    \/ MainLoadPaper
    \/ RunStart
    \/ RunMakeInnerCmds
    \/ RunResolver
    \/ SchedulerTimer
    \/ SchedulerCancel
    \/ LoopInnerBackup
    \/ LoopInnerClose
    \/ LoopInnerOpen
    \/ LoopInnerWarn
    \/ UpdateArchive
    \/ UpdateRefresh
    \/ UpdateRestart
    \/ RebootRestart
    \/ LoopExitStop
    \/ StopSend
    \/ StopProcessExited
    \/ StopWorkersExited
    \/ RunExits

\* SpecMain where every step of the program that can be taken is eventually
\* taken.
SpecMainLive == MainInit /\ [][MainNext]_vars /\ WF_vars(MainProgress)

----------------------------------------------------------------------------
(* SpecSilent: the event loop, the workers and a process that may leave a    *)
(* command without the line that its sender waits for.                       *)

SilentNext ==
    \/ LiveNext
    \/ WriterWriteUnanswered

SpecSilent == Init /\ [][SilentNext]_vars

----------------------------------------------------------------------------
(* Properties of the output analyzer *)

\* The callers whose request was received by the analyzer and has not been
\* delivered its line.
InFlight == {c \in Callers : call[c].pc \in {"notify", "send", "find"}}

\* C1: at most one ListenRequest is in flight; it is the one in the slot, and
\* while it is held every other caller with a request is still blocked in
\* its submission on requestsPipe.  Checked under SpecEngine.
C1_OneRequestInFlight ==
    /\ Cardinality(InFlight) <= 1
    /\ \A c \in InFlight : reqPtr = ListenRequest(call[c].query, c)
    /\ \A c \in Callers :
           (reqPtr # None /\ reqPtr[1].owner # c)
           => call[c].pc \in {"idle", "submit", "done"}

\* A second caller is blocked submitting while the first caller's request is
\* held and unmatched.
C1_Witness ==
    /\ call["c1"].pc = "find" /\ call["c2"].pc = "submit"
    /\ reqPtr = ListenRequest(call["c1"].query, "c1")
    /\ anaPc = "select" /\ scanned # <<>>

\* C2: a line delivered on a found channel contains the query of the request
\* held in the slot, which is the current request of the caller that receives
\* it; no caller ever holds a line that does not contain the query it last
\* submitted.
C2_NoCrossTalk ==
    /\ anaPc = "deliver" =>
           /\ reqPtr # None
           /\ Contains(anaText, reqPtr[1].query)
           /\ call[reqPtr[1].owner].query = reqPtr[1].query
           /\ call[reqPtr[1].owner].pc \in {"send", "find"}
    /\ \A c \in Callers :
           call[c].pc = "done" => Contains(call[c].line, call[c].query)

\* The third of the three sequential requests of Backup received its line,
\* after the second one was resolved by a chat line quoting its query.
C2_Witness ==
    /\ loopPc = "backup" /\ step = 3 /\ call["loop"].pc = "done"
    /\ call["loop"].line = LineEnabled
    /\ \E i \in 1..Len(sagaLog) : sagaLog[i] = [ev |-> "found", what |-> LineChatSaved]

\* C3, as a step property: the accepted signal is given only with the request
\* in the slot, and from then on every line the analyzer dequeues before the
\* match is tested against the query: a line containing it is the one being
\* delivered, any other leaves the request in the slot.
C3_Step ==
    \A c \in Callers :
        /\ (call[c].pc = "notify" /\ call'[c].pc = "send")
           => (reqPtr = ListenRequest(call[c].query, c) /\ reqPtr' = reqPtr)
        /\ (call[c].pc \in {"send", "find"} /\ anaPc # "deliver"
                /\ Len(outputsPipe') < Len(outputsPipe))
           => /\ reqPtr' = ListenRequest(call[c].query, c)
              /\ IF Contains(Head(outputsPipe), call[c].query)
                 THEN anaPc' = "deliver" /\ anaText' = Head(outputsPipe)
                 ELSE anaPc' = anaPc

C3_AcceptedThenEveryLineTested == [][C3_Step]_vars

\* After acceptance, and after the caller has sent its command, a line that
\* does not contain the query was tested and the request is still held.
C3_Witness ==
    /\ call["loop"].pc = "find" /\ anaPc = "select"
    /\ reqPtr = ListenRequest(call["loop"].query, "loop")
    /\ scanned # <<>>

\* C4: the line delivered for a request is the first line dequeued since the
\* request was stored that contains the query, it goes to a caller that has
\* not received a line for this request, and once the caller has its line the
\* slot no longer holds the request.
C4_FirstMatchOnly ==
    /\ anaPc = "deliver" =>
           /\ reqPtr # None /\ scanned # <<>>
           /\ anaText = scanned[Len(scanned)]
           /\ Contains(anaText, reqPtr[1].query)
           /\ \A j \in 1..(Len(scanned) - 1) : ~Contains(scanned[j], reqPtr[1].query)
           /\ call[reqPtr[1].owner].pc \in {"send", "find"}
    /\ \A c \in Callers :
           call[c].pc \in {"idle", "submit", "done"}
           => (reqPtr = None \/ reqPtr[1].owner # c)

\* The chat line quoting "Saved the game" resolved the request; the slot is
\* empty and the process's own "Saved the game" is the next line to dequeue.
C4_Witness ==
    /\ call["loop"].pc = "done" /\ call["loop"].line = LineChatSaved
    /\ reqPtr = None /\ anaPc = "select"
    /\ outputsPipe # <<>> /\ Head(outputsPipe) = LineSaved

----------------------------------------------------------------------------
(* Properties of Server.Backup *)

Sent(cmd) == [ev |-> "sent", what |-> cmd]
SentCount(cmd) == Cardinality({i \in 1..Len(sagaLog) : sagaLog[i] = Sent(cmd)})

\* C9: when the archive step has failed and Backup is over, save-on was sent
\* exactly once and a line containing its acknowledgement was delivered.
C9_SaveOnAfterArchiveFailure ==
    (loopPc \in {"returned", "panic"} /\ err # "nil")
    => /\ SentCount("save-on") = 1
       /\ sagaLog[Len(sagaLog)].ev = "found"
       /\ Contains(sagaLog[Len(sagaLog)].what, QueryEnabled)

\* The i-th event of a Backup.
BackupEventOk(i, e) ==
    CASE i = 1 -> e = [ev |-> "accepted", what |-> QueryDisabled]
      [] i = 2 -> e = Sent("save-off")
      [] i = 3 -> e.ev = "found" /\ Contains(e.what, QueryDisabled)
      [] i = 4 -> e = [ev |-> "accepted", what |-> QuerySaved]
      [] i = 5 -> e = Sent("save-all")
      [] i = 6 -> e.ev = "found" /\ Contains(e.what, QuerySaved)
      [] i = 7 -> e.ev = "archive"
      [] i = 8 -> e = [ev |-> "accepted", what |-> QueryEnabled]
      [] i = 9 -> e = Sent("save-on")
      [] i = 10 -> e.ev = "found" /\ Contains(e.what, QueryEnabled)
      [] OTHER -> FALSE

----------------------------------------------------------------------------
(* Properties of the resolver, checked under SpecResolver *)

Resolved == schedPc = "timer"

\* The midnight variable of the day loop in its i-th iteration.
MidnightOf(i) == DateMidnight(now, Config.Timezone) + i * 24 * Hour
WeekdayOf(i) == Weekday(MidnightOf(i), Config.Timezone)

\* The candidates of the scanned days, as a set: instant, command, iteration
\* of the day loop and position inside the iteration (open, the warn times in
\* configured order, close, backup).
DayCandidates(i) ==
    LET wd == WeekdayOf(i)
        n == Len(Config.WarnBefore)
        entry == Config.DaysSchedule[wd]
        close == MidnightOf(i) + entry.End.hours * 60 + entry.End.minutes
    IN  (IF wd \in DOMAIN Config.DaysSchedule
         THEN {[t |-> MidnightOf(i) + entry.Start.hours * 60 + entry.Start.minutes,
                cmd |-> "OpenAccess", day |-> i, pos |-> 0],
               [t |-> close, cmd |-> "CloseAccess", day |-> i, pos |-> n + 1]}
              \cup {[t |-> close - Config.WarnBefore[k], cmd |-> "Warn",
                     day |-> i, pos |-> k] : k \in 1..n}
         ELSE {})
        \cup
        (IF wd = 1
         THEN {[t |-> MidnightOf(i) + 5 * 60, cmd |-> "Backup", day |-> i, pos |-> n + 2]}
         ELSE {})

Candidates == UNION {DayCandidates(i) : i \in 0..7}
EligibleCandidates == {c \in Candidates : c.t > now}

\* C5: the timestamp chosen by the resolver is strictly after `now'.
C5_NextTimeAfterNow ==
    (Resolved /\ nextTime # Nil) => nextTime[1] > now

\* The resolver chose the instant right after `now'.
C5_Witness ==
    Resolved /\ nextTime # Nil /\ nextTime[1] = now + 1

MondayOnly == DOMAIN Config.DaysSchedule = {1}
    /\ Config.DaysSchedule[1] = [Start |-> [hours |-> 8, minutes |-> 0],
                                 End |-> [hours |-> 22, minutes |-> 0]]
    /\ Config.WarnBefore = <<30>>

\* C6: the resolver returns an eligible candidate with the minimum timestamp
\* over the 8 scanned days (nothing when no candidate is eligible); with Monday
\* 08:00-22:00 and a 30m warn it returns (OpenAccess, Monday 08:00) at Monday
\* 07:00 and (Warn, Monday 21:30) at Monday 21:29.
C6_EarliestCandidate ==
    Resolved =>
        /\ LET eligible == EligibleCandidates
           IN  /\ (nextTime = Nil) <=> (eligible = {})
               /\ nextTime # Nil =>
                   /\ \E c \in eligible : c.t = nextTime[1] /\ c.cmd = nextCommand
                   /\ \A c \in eligible : nextTime[1] <= c.t
        /\ (MondayOnly /\ now = 7 * 60) =>
               (nextCommand = "OpenAccess" /\ nextTime = <<8 * 60>>)
        /\ (MondayOnly /\ now = 21 * 60 + 29) =>
               (nextCommand = "Warn" /\ nextTime = <<21 * 60 + 30>>)

\* The Monday 21:29 scenario was resolved, to a time that is not the first
\* eligible candidate of the scan.
C6_Witness ==
    Resolved /\ MondayOnly /\ now = 21 * 60 + 29 /\ nextCommand = "Warn"

\* The eligible candidates at the chosen instant.
Tied == {c \in EligibleCandidates : nextTime # Nil /\ c.t = nextTime[1]}

Precedence(cmd) ==
    CASE cmd = "Backup" -> 4
      [] cmd = "OpenAccess" -> 3
      [] cmd = "Warn" -> 2
      [] cmd = "CloseAccess" -> 1

\* C7 as stated: among the candidates that share the earliest timestamp the
\* resolver returns the command with precedence Backup > Open > Warn > Close.
C7_PrecedenceAsClaimed ==
    (Resolved /\ nextTime # Nil) =>
        \A c \in Tied : Precedence(nextCommand) >= Precedence(c.cmd)

\* C7: among the candidates that share the earliest timestamp the resolver
\* returns the one computed first: the earliest scanned day, and within a day
\* in the order open, warn (in configured order), close, backup.
C7_FirstComputedWins ==
    (Resolved /\ nextTime # Nil) =>
        LET tied == Tied
        IN  \E w \in tied :
                /\ w.cmd = nextCommand
                /\ w.day = chosenDay
                /\ \A c \in tied : w.day < c.day \/ (w.day = c.day /\ w.pos <= c.pos)

\* A Monday open time equal to the backup hour was resolved to OpenAccess.
C7_Witness ==
    /\ Resolved /\ nextTime # Nil /\ nextCommand = "OpenAccess"
    /\ \E c \in Tied : c.cmd = "Backup"

\* C8: a weekday absent from DaysSchedule produces no OpenAccess, CloseAccess
\* or Warn candidate for that day (the chosen command, if one of these, comes
\* from a scanned day with an entry), and the Monday backup candidate is still
\* produced when Monday has no entry (the chosen time is never later than it).
C8_AbsentDayOnlyBackup ==
    Resolved =>
        /\ (nextTime # Nil /\ nextCommand \in {"OpenAccess", "CloseAccess", "Warn"})
               => WeekdayOf(chosenDay) \in DOMAIN Config.DaysSchedule
        /\ \A i \in 0..7 :
               (WeekdayOf(i) = 1 /\ 1 \notin DOMAIN Config.DaysSchedule
                    /\ now < MidnightOf(i) + 5 * 60)
               => (nextTime # Nil /\ nextTime[1] <= MidnightOf(i) + 5 * 60)

\* On a Monday without entry, before the backup hour, with other days
\* configured, the backup of that Monday was chosen.
C8_Witness ==
    /\ Resolved /\ WeekdayOf(0) = 1
    /\ 1 \notin DOMAIN Config.DaysSchedule /\ DOMAIN Config.DaysSchedule # {}
    /\ nextCommand = "Backup" /\ chosenDay = 0 /\ nextTime # Nil

----------------------------------------------------------------------------
(* Properties of the access control actions, checked under SpecAccess *)

\* The log is the one of handler h; the handler h is over.
LogOf(h) == cmdLog # <<>> /\ cmdLog[1] = [ev |-> "handler", what |-> h]
Over(h) == LogOf(h) /\ loopPc \in {"select", "exiting"}

\* The commands the handler has enqueued so far, in order.
Enqueued == [i \in 1..(Len(cmdLog) - 1) |-> cmdLog[i + 1].what]

\* The i-th event of a Warn.
WarnEventOk(i, e) ==
    CASE i = 1 -> e = [ev |-> "accepted", what |-> <<"of", "a", "max", "of">>]
      [] i = 2 -> e = [ev |-> "sent", what |-> "list"]
      [] i = 3 -> e.ev = "found"
      [] i = 4 -> /\ e = [ev |-> "sent", what |-> "say Server will close soon"]
                  /\ ~Contains(cmdLog[4].what, <<"There", "are", "0", "of", "a", "max", "of">>)
      [] OTHER -> FALSE

\* C11: in a Warn, `list' is sent after the request for "of a max of" was
\* accepted and before its line is delivered; `say Server will close soon' is
\* sent, after the delivery, only for a line without "There are 0 of a max
\* of"; and when the Warn is over it was sent exactly if the delivered line
\* does not contain "There are 0 of a max of", nothing else being sent.
C11_WarnOnlyWhenPlayers ==
    LogOf("Warn") =>
        /\ \A i \in 1..(Len(cmdLog) - 1) : WarnEventOk(i, cmdLog[i + 1])
        /\ Over("Warn") =>
               /\ Len(cmdLog) \in {4, 5}
               /\ (Len(cmdLog) = 5) <=>
                      ~Contains(cmdLog[4].what, <<"There", "are", "0", "of", "a", "max", "of">>)

\* A Warn is over that was delivered a line counting two players and sent
\* the warning.
C11_Witness ==
    /\ Over("Warn") /\ Len(cmdLog) = 5
    /\ cmdLog[4].what = LineListSome

\* C12 as stated: CloseAccess with the players Java Al, Bedrock Bo sends
\* exactly the four commands remove Al, kick Al, remove Bo, kick Bo, and in
\* general exactly two commands per configured player.
C12_ExactlyTwoPerPlayer ==
    Over("CloseAccess") =>
        /\ Len(Enqueued) = 2 * Len(players)
        /\ players = <<Player("Java", "Al"), Player("Bedrock", "Bo")>> =>
               Enqueued = << "whitelist remove Al", "kick Al Server is closed",
                             "fwhitelist remove Bo", "kick .Bo Server is closed" >>

\* C12: CloseAccess with the players Java Al, Bedrock Bo sends exactly five
\* commands: the broadcast, then remove Al, kick Al, remove Bo, kick Bo with
\* the Bedrock verbs for Bo; in general the broadcast and exactly two
\* commands per configured player.
C12_BroadcastAndTwoPerPlayer ==
    Over("CloseAccess") =>
        /\ Len(Enqueued) = 1 + 2 * Len(players)
        /\ players = <<Player("Java", "Al"), Player("Bedrock", "Bo")>> =>
               Enqueued = << "say Server is closing now!",
                             "whitelist remove Al", "kick Al Server is closed",
                             "fwhitelist remove Bo", "kick .Bo Server is closed" >>

\* The CloseAccess of the scenario is over.
C12_Witness ==
    /\ Over("CloseAccess")
    /\ players = <<Player("Java", "Al"), Player("Bedrock", "Bo")>>
    /\ Len(Enqueued) = 5

\* What a command line says: the verb, the kind of player it is for, the
\* nickname.
Reading(cmd) ==
    CASE cmd = "whitelist remove Al" -> [verb |-> "remove", type |-> "Java", nick |-> "Al"]
      [] cmd = "whitelist remove Bo" -> [verb |-> "remove", type |-> "Java", nick |-> "Bo"]
      [] cmd = "fwhitelist remove Al" -> [verb |-> "remove", type |-> "Bedrock", nick |-> "Al"]
      [] cmd = "fwhitelist remove Bo" -> [verb |-> "remove", type |-> "Bedrock", nick |-> "Bo"]
      [] cmd = "kick Al Server is closed" -> [verb |-> "kick", type |-> "Java", nick |-> "Al"]
      [] cmd = "kick Bo Server is closed" -> [verb |-> "kick", type |-> "Java", nick |-> "Bo"]
      [] cmd = "kick .Al Server is closed" -> [verb |-> "kick", type |-> "Bedrock", nick |-> "Al"]
      [] cmd = "kick .Bo Server is closed" -> [verb |-> "kick", type |-> "Bedrock", nick |-> "Bo"]
      [] cmd = "whitelist add Al" -> [verb |-> "add", type |-> "Java", nick |-> "Al"]
      [] cmd = "whitelist add Bo" -> [verb |-> "add", type |-> "Java", nick |-> "Bo"]
      [] cmd = "fwhitelist add Al" -> [verb |-> "add", type |-> "Bedrock", nick |-> "Al"]
      [] cmd = "fwhitelist add Bo" -> [verb |-> "add", type |-> "Bedrock", nick |-> "Bo"]
      [] OTHER -> [verb |-> "say", type |-> "", nick |-> ""]

\* C13: the first command of a CloseAccess is the broadcast; the commands
\* after it are, for the players in configured order, the remove command of
\* the player immediately followed by the kick command of the same player,
\* in the form of the player's kind; when the CloseAccess is over every
\* player had both.
C13_BroadcastThenRemoveKick ==
    LogOf("CloseAccess") =>
        /\ \A i \in 1..Len(Enqueued) :
               IF i = 1 THEN Enqueued[i] = "say Server is closing now!"
               ELSE /\ i \div 2 <= Len(players)
                    /\ Reading(Enqueued[i]) =
                           [verb |-> IF i % 2 = 0 THEN "remove" ELSE "kick",
                            type |-> players[i \div 2].Type,
                            nick |-> players[i \div 2].Nickname]
        /\ Over("CloseAccess") =>
               \A k \in 1..Len(players) :
                   /\ 2 * k + 1 <= Len(Enqueued)
                   /\ Reading(Enqueued[2 * k]).verb = "remove"
                   /\ Reading(Enqueued[2 * k + 1]).verb = "kick"

\* A CloseAccess for a Bedrock player followed by a Java player has removed
\* the first and not yet kicked it.
C13_Witness ==
    /\ LogOf("CloseAccess") /\ loopPc = "close"
    /\ players = <<Player("Bedrock", "Bo"), Player("Java", "Al")>>
    /\ Len(Enqueued) = 2

\* C14: the commands of an OpenAccess are, for the players in configured
\* order, the add command in the form of the player's kind; when the
\* OpenAccess is over there is exactly one per player.
C14_OneAddPerPlayer ==
    LogOf("OpenAccess") =>
        /\ Len(Enqueued) <= Len(players)
        /\ \A i \in 1..Len(Enqueued) :
               Reading(Enqueued[i]) = [verb |-> "add", type |-> players[i].Type,
                                       nick |-> players[i].Nickname]
        /\ Over("OpenAccess") => Len(Enqueued) = Len(players)

\* An OpenAccess for a Java and a Bedrock player is over.
C14_Witness ==
    /\ Over("OpenAccess")
    /\ players = <<Player("Java", "Al"), Player("Bedrock", "Bo")>>
    /\ Enqueued = <<"whitelist add Al", "fwhitelist add Bo">>

----------------------------------------------------------------------------
(* Properties of the process lifecycle, checked under SpecServer *)

\* C15: no Start has found the process or a worker of an earlier Start alive:
\* at most one child process and one set of workers is alive.
C15_AtMostOneProcess == stale = {}

\* A second process is running, with all its workers.
C15_Witness ==
    /\ startLog.n = 2 /\ startLog.result = "nil"
    /\ loopPc = "select" /\ procAlive
    /\ Alive = {"process", "run", "input writer", "stdout reader", "stderr reader",
                "output analyzer", "scheduler"}

\* C16 as stated: a Start called in a state other than Stopped (s.cmdCtx is
\* set: a process of an earlier Start is running, or has exited and Stop has
\* not run) returns "Already started" and creates nothing; a Start called in
\* Stopped proceeds.  Checked under SpecCalls.
C16_StartRejectedUnlessStopped ==
    startLog.n > 0 =>
        /\ (startLog.ctx # "nil") <=> (startLog.result = "Already started")
        /\ stale = {}

\* The workers Stop waits for.
Waited == {"input writer", "stdout reader", "stderr reader", "output analyzer", "scheduler"}

\* C17: Stop waits for the cancellation of the context only after it has
\* sent `stop'; it waits for the workers only with the context cancelled,
\* which follows the exit of the process; it clears s.cmdCtx only with all
\* the workers of WaitWorkers ended; so when it has returned nil the process
\* has exited, no worker is alive and s.cmdCtx is nil.
C17_StopWaitsForProcessAndWorkers ==
    /\ stopPc = "wait" =>
           /\ cmdLog[Len(cmdLog)] = [ev |-> "sent", what |-> "stop"]
           /\ cmdCtx = "set"
    /\ stopPc = "workers" => (ctxDone /\ ~procAlive /\ cmdCtx = "set")
    /\ (stopPc = "returned" /\ stopErr = "nil") =>
           (ctxDone /\ Alive = {} /\ cmdCtx = "nil")
    /\ (cmdCtx = "nil" /\ loopPc # "panic") => Alive \cap Waited = {}

\* Stop has sent `stop' to a running process, seen it exit, waited for the
\* workers and returned nil.
C17_Witness ==
    /\ stopPc = "returned" /\ stopErr = "nil"
    /\ cmdLog = <<[ev |-> "handler", what |-> "Stop"], [ev |-> "sent", what |-> "stop"]>>

\* C18 as stated: whenever the process has terminated, the event loop
\* eventually leaves its loop.  Checked under SpecLive.
C18_LoopExitsAfterProcessExit ==
    (~procAlive) ~> (loopPc \in {"exiting", "panic"})

\* C19 as stated: once the context of the process is cancelled, the input
\* writer, the stdout reader and the stderr reader eventually end.  Checked
\* under SpecLive.
C19_IOWorkersTerminate ==
    ctxDone ~> \/ loopPc = "panic"
               \/ writerPc = "done" /\ readerPc = "done" /\ errReaderPc = "done"

\* C20 as stated: with the process terminated, its context cancelled and its
\* analyzer ended, no caller is blocked submitting a request or waiting for
\* its acceptance or its line.
C20_NoRequestOutlivesProcess ==
    (~procAlive /\ ctxDone /\ anaPc = "done") =>
        \A c \in Callers : call[c].pc \notin {"submit", "notify", "find"}

----------------------------------------------------------------------------
(* Properties of update, of the scheduling worker and of the event loop *)

\* The calls that the update command has made after its Stop, from cmdLog.
UpdateCalls ==
    LET steps == SelectSeq(cmdLog, LAMBDA e : e.ev = "step")
    IN  [i \in 1..Len(steps) |-> steps[i].what]

IsPrefix(a, b) == Len(a) <= Len(b) /\ a = SubSeq(b, 1, Len(a))

\* C21: the update command calls Stop, then BackupFolder, then the binary
\* refresh (LoadPaper, LoadGeyser), then Start, in this order; whenever the
\* binary refresh is about to run, in update or in main before Run, no
\* process and no worker of a process is running.
C21_UpdateOrderAndRefreshWhileStopped ==
    /\ IsPrefix(UpdateCalls, <<"BackupFolder", "LoadPaper", "Start">>)
    /\ UpdateCalls # <<>> => cmdLog[1] = [ev |-> "handler", what |-> "Stop"]
    /\ loopPc = "refresh" => (UpdateCalls = <<"BackupFolder">> /\ stopErr = "nil")
    /\ loopPc = "restart" => UpdateCalls = <<"BackupFolder", "LoadPaper">>
    /\ loopPc \in {"main", "refresh"} => (~procAlive /\ Alive = {})

\* An update has run to its end: the process was stopped, the directory
\* archived, the binaries refreshed and a second process started.
C21_Witness ==
    /\ UpdateCalls = <<"BackupFolder", "LoadPaper", "Start">>
    /\ loopPc = "select" /\ procAlive /\ startLog.n = 2
    /\ Len(cmdLog) = 5

\* C22: when the resolver has found no candidate, the scheduling worker
\* sends no command: its timer is set, the next thing it does is to run the
\* resolver again one hour later, and the event loop is not involved.
C22_NothingScheduledRetriesHourly ==
    /\ [](schedPc \in {"send", "send nil"} => nextTime # Nil)
    /\ []((schedPc = "timer" /\ nextTime = Nil) => ENABLED SchedulerTimer)
    /\ [][(schedPc = "timer" /\ nextTime = Nil /\ schedPc' # schedPc)
           => (schedPc' = "resolve" /\ now' = now + Hour /\ ops' = ops)]_vars

\* Nothing was scheduled on the Monday at 07:00: the timer of one hour has
\* expired, the resolver has run again at 08:00 and the timer is set again.
C22_Witness ==
    /\ DOMAIN Config.DaysSchedule = {}
    /\ now = 8 * Hour /\ now \notin Nows
    /\ schedPc = "timer" /\ nextTime = Nil /\ ops = 0

\* C23: a Start that leaves no running process, because the process could
\* not be launched or a stream handle could not be had, returns an error to
\* its caller, which halts (Run returns it to main, update and reboot panic),
\* and nothing is enqueued for the process.
C23_LaunchFailureReported ==
    [][(startLog'.n > startLog.n /\ ~IsStarted
          /\ (~procAlive' \/ cmdCtx' = "unwatched"))
       => (startLog'.result # "nil" /\ loopPc' = "panic"
           /\ Len(inputsPipe') <= Len(inputsPipe))]_vars

\* C24: once Stop waits for the workers, that is with the context cancelled
\* and the process gone, every worker exits, the scheduling worker that is
\* sending on innerCmds included, and Stop returns.  (A worker that sends on
\* an innerCmds read as nil is the subject of C30 and is left out.)
C24_StopReturnsAfterExit ==
    (stopPc = "workers" /\ schedPc # "send nil") ~> (stopPc = "returned")

\* C25: whenever a line is enqueued on inputsPipe, by the event loop, by
\* Backup, by an access-control action or by Stop, the input writer of the
\* current process is running.
C25_EnqueueOnlyWithWriter ==
    [][Len(inputsPipe') > Len(inputsPipe) => writerPc = "select"]_vars

\* C26: no scheduled command is lost to a busy event loop: when the resolver
\* runs after a command was handed over, however late, what it schedules is
\* the first command after the one handed over.
C26_NoDueEventDropped ==
    [][(schedPc = "resolve" /\ nextTime # Nil /\ schedPc' = "timer")
       => nextTime' = Resolve(nextTime[1], Config).nextTime]_vars

\* The event loop is in Backup or in Warn, in the <-find of a correlated wait.
LoopWaits == loopPc \in {"backup", "warn"} /\ call["loop"].pc = "find"

\* C27: a Backup or a Warn that waits for its line leaves the wait only by
\* receiving a line of the process that contains the awaited text; as long as
\* no such line comes it stays in the wait, and the event loop takes no
\* operator line, no scheduled command and no stop request.
C27_WaitEndsOnlyWithMatchingLine ==
    [][LoopWaits =>
         /\ loopPc' = loopPc /\ ops' = ops /\ input' = input /\ step' = step
         /\ stopPc' = stopPc /\ todo' = todo
         /\ \/ call'["loop"] = call["loop"]
            \/ /\ call'["loop"] = [call["loop"] EXCEPT !.pc = "done",
                                                        !.line = call'["loop"].line]
               /\ Contains(call'["loop"].line, call["loop"].query)
               /\ anaText = call'["loop"].line]_vars

\* The process is running and has taken save-off without printing the line
\* that Backup waits for; the analyzer has tested another line; nothing is
\* left in any queue and the process prints nothing more.
C27_Witness ==
    /\ LoopWaits /\ loopPc = "backup" /\ step = 1
    /\ procAlive /\ ~autosave /\ ~ctxDone
    /\ inputsPipe = <<>> /\ stdoutBuf = <<>> /\ outputsPipe = <<>>
    /\ readerPc = "scan" /\ anaPc = "select" /\ reqPtr # None
    /\ scanned # <<>> /\ chatter = MaxChatter

\* The event loop is inside Backup or inside the Warn, CloseAccess or
\* OpenAccess case.
InHandler == loopPc \in {"backup", "warn", "warnsay", "close", "open"}

\* C28: while Backup, Warn, CloseAccess or OpenAccess is in progress the
\* event loop takes no operator line and no scheduled command, and every
\* line that is enqueued on inputsPipe is one line, recorded in the same step
\* as the next command sent by that action.
C28_HandlerOwnsInputs ==
    [][InHandler =>
         /\ ops' = ops /\ input' = input
         /\ loopPc' \in {loopPc, "warnsay", "returned", "select", "panic"}
         /\ Len(inputsPipe') > Len(inputsPipe) =>
               LET line == inputsPipe'[Len(inputsPipe')]
                   sent == [ev |-> "sent", what |-> line]
               IN  /\ inputsPipe' = Append(inputsPipe, line)
                   /\ IF loopPc = "backup"
                      THEN sagaLog' = Append(sagaLog, sent) /\ cmdLog' = cmdLog
                      ELSE cmdLog' = Append(cmdLog, sent) /\ sagaLog' = sagaLog]_vars

\* CloseAccess, taken as the first event, has enqueued its broadcast and the
\* commands of the first player; the event loop could take a second event
\* and is not at its select.
C28_Witness ==
    /\ loopPc = "close" /\ ops = 1 /\ ops < MaxOps
    /\ Len(cmdLog) >= 4 /\ todo # <<>>
    /\ inputsPipe # <<>>

\* C29: an error returned by BackupFolder, in Backup or in update, does not
\* end the event loop.
C29_ArchiveErrorKeepsLoop == ~(loopPc = "panic" /\ err = "error")

\* C30: the fields of Server are assigned on the event-loop thread and no
\* worker reads one of them unordered with its assignment: the scheduling
\* worker is never at its read of innerCmds, the send of line 233, while Run
\* has still to assign the field.
C30_NoReadUnorderedWithWrite ==
    /\ schedPc # "send nil"
    /\ schedPc = "send" => innerCmds = "made"

----------------------------------------------------------------------------
(* Properties of the input writer and of the idle analyzer *)

\* C32: a line dequeued from outputsPipe while the slot is empty is only
\* printed: the step removes the head of outputsPipe and changes nothing of
\* the analyzer (slot, line to deliver, lines tested) and nothing of any
\* caller; and a line that is delivered is the last line dequeued since its
\* request was put in the slot, never one dequeued before.
C32_IdleLineOnlyPrinted ==
    /\ [](anaPc = "deliver" =>
            (scanned # <<>> /\ anaText = scanned[Len(scanned)]))
    /\ [][(anaPc = "select" /\ reqPtr = None
             /\ Len(outputsPipe') < Len(outputsPipe))
           => /\ outputsPipe' = Tail(outputsPipe)
              /\ reqPtr' = None /\ anaPc' = "select"
              /\ anaText' = anaText /\ scanned' = scanned
              /\ call' = call /\ issued' = issued]_vars

\* The process printed a line nobody asked for and the line is gone from
\* every buffer while no caller has issued a request yet: the analyzer
\* dequeued it with an empty slot.
C32_Witness ==
    /\ chatter = 1 /\ \A c \in Callers : issued[c] = 0
    /\ stdoutBuf = <<>> /\ readerPc = "scan" /\ outputsPipe = <<>>
    /\ reqPtr = None /\ anaPc = "select"

\* C33: a Stop called while s.cmdCtx is nil returns "Already stopped." at
\* once: in that step nothing is enqueued and the process, the context, the
\* channels, the workers and the configuration are as before.
C33_StopWithoutHandle ==
    [][(stopPc = "none" /\ stopPc' # "none" /\ cmdCtx = "nil")
       => /\ stopPc' = "returned" /\ stopErr' = "Already stopped."
          /\ cmdCtx' = "nil"
          /\ UNCHANGED <<schedVars, procVars, ioVars, anaVars, callVars>>
          /\ UNCHANGED <<errReaderPc, stale, startLog, players, todo>>]_vars

\* A Stop has run to its end after a Start, and the next Stop returned
\* "Already stopped.".
C33_Witness ==
    /\ startLog.n = 1 /\ startLog.result = "nil"
    /\ cmdCtx = "nil" /\ ops = 3
    /\ stopPc = "returned" /\ stopErr = "Already stopped."

\* C31 as stated: every line enqueued while the process was alive is written
\* before the input writer exits: once the writer has exited, no such line is
\* left in inputsPipe.
C31_EveryLineWritten == writerPc = "done" => queuedAlive = 0

\* C31: inputsPipe changes only by a send that appends one line, by the
\* writer taking its head (a live process then acts on exactly that line,
\* once), or by a Start that replaces the channel; the writer exits only
\* when the process has exited and the context is cancelled, so that a line
\* enqueued while the process was alive is written unless the process exits
\* before the writer takes it, the stop line of Stop included.
C31_WrittenInOrderWhileAlive ==
    /\ [][inputsPipe' # inputsPipe
           => \/ /\ Len(inputsPipe') = Len(inputsPipe) + 1
                 /\ SubSeq(inputsPipe', 1, Len(inputsPipe)) = inputsPipe
              \/ /\ writerPc = "select" /\ inputsPipe # <<>>
                 /\ inputsPipe' = Tail(inputsPipe)
                 /\ procAlive =>
                       /\ \E reply \in Replies(Head(inputsPipe)) :
                              stdoutBuf' = stdoutBuf \o reply
                       /\ procAlive' = (Head(inputsPipe) # "stop")
              \/ /\ startLog'.n = startLog.n + 1
                 /\ inputsPipe' = <<>>]_vars
    /\ [][(Len(stdoutBuf') > Len(stdoutBuf) /\ chatter' = chatter)
           => (inputsPipe # <<>> /\ inputsPipe' = Tail(inputsPipe))]_vars
    /\ [][(writerPc = "select" /\ writerPc' = "done")
           => (~procAlive /\ ctxDone)]_vars
    /\ [](procAlive => queuedAlive = Len(inputsPipe))

\* The operator's list was written to the live process, which has replied,
\* and the stop line of Stop waits behind it for the input writer.
C31_Witness ==
    /\ procAlive /\ writerPc = "select"
    /\ stdoutBuf \in {<<LineListNone>>, <<LineListSome>>}
    /\ stopPc = "wait" /\ inputsPipe = <<"stop">> /\ queuedAlive = 1

----------------------------------------------------------------------------
(* Properties of the correlated wait and the lines buffered before it *)

\* C34: a line is delivered to a request only after the caller's command,
\* sent after accepted, has reached the process: while the analyzer holds a
\* line for a caller, the caller has sent its command and waits on find,
\* and the command is no longer in inputsPipe.
C34_DeliveredLineAnswersCommand ==
    anaPc = "deliver" =>
        LET c == reqPtr[1].owner
        IN  /\ call[c].pc = "find"
            /\ \A i \in 1..Len(inputsPipe) : inputsPipe[i] # call[c].cmd

----------------------------------------------------------------------------
(* Properties of the scheduling worker: ties, the window, repeated dispatch *)

\* C35: with an idle event loop the resolver is re-run at the instant of the
\* occurrence it has just dispatched; an occurrence of another command at
\* that same instant is then the one it selects, so that both commands reach
\* the event loop.
C35_TiedOccurrencesBothDispatched ==
    [][(schedPc = "resolve" /\ nextTime # Nil /\ now = nextTime[1]
         /\ schedPc' = "timer")
       => \A c \in Candidates :
              (c.t = now /\ c.cmd # nextCommand)
              => (nextTime' = <<now>> /\ nextCommand' = c.cmd)]_vars

\* C36: whenever the timer of the scheduling worker fires with a command to
\* dispatch, so that the worker goes to its send on s.innerCmds, Run has
\* already created that channel: the worker is never left blocked on a nil
\* channel.
C36_ChannelMadeBeforeFirstSend ==
    [][(schedPc = "timer" /\ schedPc' \in {"send", "send nil"})
       => innerCmds = "made"]_vars

\* C37: for every schedule and every instant the resolver finds a candidate,
\* and the time it chooses is at most seven days after `now'.
C37_AlwaysACandidate ==
    Resolved => (nextTime # Nil /\ nextTime[1] <= now + 7 * 24 * Hour)

\* C38: no occurrence is dispatched twice, also across restarts: no worker
\* of an earlier Start is alive beside the current one; the clock never goes
\* back; the timer fires no earlier than the occurrence it was armed for; and
\* whatever a worker selects, the one of a later Start included, is strictly
\* after the instant of its selection, hence after every occurrence
\* dispatched before.
C38_NoOccurrenceDispatchedTwice ==
    /\ [](stale = {})
    /\ [][now' >= now]_vars
    /\ [](schedPc \in {"send", "send nil"} => now >= nextTime[1])
    /\ []((schedPc = "timer" /\ nextTime # Nil) => nextTime[1] > now)

\* The Warn of 21:30 was dispatched, the operator's reboot has stopped and
\* started the Server, and the worker of the second Start has selected the
\* CloseAccess of 22:00.
C38_Witness ==
    /\ startLog.n = 2 /\ ops = 2 /\ loopPc = "select"
    /\ now = 21 * Hour + 30
    /\ cmdLog # <<>> /\ cmdLog[1] = [ev |-> "handler", what |-> "Stop"]
    /\ schedPc = "timer" /\ nextTime = <<22 * Hour>> /\ nextCommand = "CloseAccess"

----------------------------------------------------------------------------
(* Property of Server.Backup in the earlier revision, under SpecLegacy *)

\* C39: when Backup of the earlier revision returns the error of the archive
\* step, save-on was sent in that Backup and autosave is enabled again.
C39_LegacySaveOnBeforeErrorReturn ==
    (loopPc = "returned" /\ err = "error" /\ procAlive)
    => (SentCount("save-on") = 1 /\ autosave)

----------------------------------------------------------------------------
(* Property of ChatProfile.ConsumeRecord, under SpecBot *)

\* Days of the months before a month, in a year of 365 days, and the number
\* of a date's day counted from the year 0 of such years.
DaysBeforeMonth(m) == CASE m = 1 -> 0 [] m = 2 -> 31 [] m = 3 -> 59 [] OTHER -> 90
DayNumber(d) == 365 * d.year + DaysBeforeMonth(d.month) + d.day

\* C40: when a record dated after LastRecordTime is consumed, the balance
\* becomes the old balance plus a credit minus the record's Amount, where the
\* credit is DayLimit times the number of days from LastRecordTime to the
\* record's date, and is not negative.
C40_CreditIsDayLimitTimesDays ==
    [][(records # <<>> /\ records' = Tail(records)
         /\ Before(chatSettings.LastRecordTime, Head(records).Date))
       => LET r == Head(records)
              credit == chatSettings'.CurrentBalance + r.Amount
                            - chatSettings.CurrentBalance
          IN  /\ credit = chatSettings.DayLimit
                             * (DayNumber(r.Date) - DayNumber(chatSettings.LastRecordTime))
              /\ credit >= 0]_vars

====
